---- MODULE Spec2Model ----
(***************************************************************************)
(* A model of the agent-side orchestration stack of the terminal agent:    *)
(* the MCP client (src/c/client.py), the policy engine (src/c/policy.py),  *)
(* the planner (src/c/planner.py), the self-correcting executor            *)
(* (src/c/agentic_loop.py) and the agent facade (src/c/agent.py).          *)
(*                                                                         *)
(* Text is modelled as a sequence of tokens (Seq(STRING)): command texts   *)
(* and paths are split into characters, URIs into a scheme prefix and the  *)
(* rest, names are one token.  startswith / in / lower act on the tokens.  *)
(* The client's trace log (_trace) is write-only diagnostics and is left   *)
(* out of the state.                                                       *)
(***************************************************************************)
EXTENDS Integers, Sequences, FiniteSets, TLC

VARIABLES
    cancelled,            \* MCPAppClient._cancelled
    cache,                \* MCPAppClient._cache: key -> response
    failure_count,        \* MCPAppClient._failure_count: key -> count
    circuit_open_until,   \* MCPAppClient._circuit_open_until: key -> time
    context_buffer,       \* MCPAppClient._context_buffer
    now,                  \* time.time()
    op,                   \* the client operation in flight / last finished
    opened_at,            \* history: key -> time of its last circuit_opened event
    fresh_failures,       \* history: key -> failed attempts since its last success
                          \* and since its circuit last went from open to expired
    prev,                 \* history: the client call finished before op
    calls,                \* history: number of client calls started
    added,                \* history: number of _add_to_context calls
    stream,               \* the items the callers of _add_to_context pass
    task_plan,            \* the TaskPlan decompose_task returned last
    oracle,               \* history: what llm.generate did on the planning prompt
    a_pc,                 \* where TerminalAgent.answer stands
    idx,                  \* answer: position in task_plan.subtasks
    execution_results,    \* answer: execution_results
    exec,                 \* the locals of act_with_retry
    gate_log,             \* history: policy evaluations since the last client call
    gated,                \* history: evaluations that matched the call in op
    synthesis,            \* history: what llm.generate did on the final prompt
    memory,               \* LongTermMemory.memory
    memory_file,          \* the content of terminal_memory.json
    seen,                 \* history: memory as the last retrieve saw it
    retrieved,            \* history: what the last retrieve returned
    retrievals,           \* history: number of retrieve calls
    policy_dry_run,       \* TerminalAgent.policy.dry_run
    payload,              \* the payload of a PolicyEngine.evaluate("tool", payload) call
    decided,              \* the decision that call returned
    context_items,        \* SessionStateManager.context_items
    checkpoint_file,      \* the files of session_checkpoints/, by checkpoint name
    saved,                \* history: context_items as save_checkpoint saw it, by name
    scored,               \* the list the last operation returned, if it was score_batch
    restored,             \* history: the checkpoint restore_checkpoint just loaded, or ""
    context_adds,         \* history: number of add_context calls
    restore_call,         \* history: the last operation if it was restore_checkpoint
    fork,                 \* the session fork_session returned, and the items it shares
    batches,              \* the batches of optimize_execution_order still to run
    batch_ops,            \* execute_batch: the call_tool of each node of the batch
    chain,                \* the tool nodes of detect_chain, and whether they were ordered
    batch_results         \* the dict execute_batch returned last: tool name -> result

clientVars == <<cancelled, cache, failure_count, circuit_open_until,
                context_buffer, now, op, opened_at, fresh_failures, prev,
                calls, added>>

streamVars == <<stream>>

plannerVars == <<task_plan, oracle>>

agentVars == <<a_pc, idx, execution_results, exec, gate_log, gated,
               synthesis>>

memoryVars == <<memory, memory_file, seen, retrieved, retrievals>>

policyVars == <<policy_dry_run, payload, decided>>

\* the state of the components that stand beside the client, the planner and
\* the agent's loop
sessionVars == <<context_items, checkpoint_file, saved, scored, restored,
                 context_adds, restore_call, fork>>

\* the state of the tool chain's ParallelExecutor
batchVars == <<batches, batch_ops, chain, batch_results>>

restVars == <<memoryVars, policyVars, sessionVars, batchVars>>

vars == <<clientVars, streamVars, plannerVars, agentVars, restVars>>

-----------------------------------------------------------------------------
(* Bounds of the model *)

MaxCalls == 2
MaxTasks == 2
MaxTicks == 2
MaxAdds == 53
MaxEntries == 2
MaxRetrievals == 2
MaxItems == 2
SessionTicks == 1

(* Program constants *)

MAX_RETRIES == 3
RESOURCE_TIMEOUT_SECONDS == 10
FAILURE_THRESHOLD == 3
CIRCUIT_BREAKER_COOLDOWN == 10
MAX_CONTEXT_ITEMS == 50
max_retries == 3

TickSeconds == CIRCUIT_BREAKER_COOLDOWN

-----------------------------------------------------------------------------
(* Text helpers *)

StartsWith(s, p) == Len(s) >= Len(p) /\ SubSeq(s, 1, Len(p)) = p

Contains(s, sub) ==
    \E i \in 0..(Len(s) - Len(sub)) : SubSeq(s, i + 1, i + Len(sub)) = sub

UpperCase == 
    <<"A", "B", "C", "D", "E", "F", "G", "H", "I", "J", "K", "L", "M",
      "N", "O", "P", "Q", "R", "S", "T", "U", "V", "W", "X", "Y", "Z">>
LowerCase == 
    <<"a", "b", "c", "d", "e", "f", "g", "h", "i", "j", "k", "l", "m",
      "n", "o", "p", "q", "r", "s", "t", "u", "v", "w", "x", "y", "z">>

Lower(c) ==
    IF \E i \in 1..Len(UpperCase) : UpperCase[i] = c
    THEN LowerCase[CHOOSE i \in 1..Len(UpperCase) : UpperCase[i] = c]
    ELSE c

LowerStr(s) == [i \in 1..Len(s) |-> Lower(s[i])]

-----------------------------------------------------------------------------
(* Argument mappings: a Python dict is a sequence of <<key, value>> pairs  *)
(* in insertion order; None is the record with none = TRUE.                *)

NoneArgs == [none |-> TRUE, items |-> <<>>]
Dict(items) == [none |-> FALSE, items |-> items]

HasKey(args, k) == \E i \in 1..Len(args.items) : args.items[i][1] = k

ArgGet(args, k, default) ==
    IF HasKey(args, k)
    THEN LET i == CHOOSE j \in 1..Len(args.items) : args.items[j][1] = k
         IN  args.items[i][2]
    ELSE default

\* the alphabetical order of the argument names in use
KeyOrder == <<"command", "content", "keyword", "message", "path", "process_id">>
KeyRank(k) == CHOOSE i \in 1..Len(KeyOrder) : KeyOrder[i] = k

RECURSIVE InsertSorted(_, _)
InsertSorted(pair, sorted) ==
    IF sorted = <<>> THEN <<pair>>
    ELSE IF KeyRank(pair[1]) <= KeyRank(Head(sorted)[1])
         THEN <<pair>> \o sorted
         ELSE <<Head(sorted)>> \o InsertSorted(pair, Tail(sorted))

RECURSIVE SortPairs(_)
SortPairs(items) ==
    IF items = <<>> THEN <<>>
    ELSE InsertSorted(Head(items), SortPairs(Tail(items)))

\* json.dumps(args, sort_keys=True)
JsonDumpsSorted(args) == [none |-> args.none, items |-> SortPairs(args.items)]

-----------------------------------------------------------------------------
(* config.py *)

ALLOWED_TOOLS ==
    {<<"run_command">>, <<"interactive_command">>, <<"read_file">>,
     <<"write_file">>, <<"list_directory">>, <<"search_files">>,
     <<"replace_in_file">>, <<"list_processes">>, <<"kill_process">>,
     <<"get_env">>, <<"system_info">>, <<"git_status">>, <<"git_diff">>,
     <<"git_commit">>, <<"tail_file">>, <<"check_port">>, <<"docker_ps">>,
     <<"analyze_code_quality">>, <<"detect_security_issues">>,
     <<"profile_code_performance">>, <<"analyze_project_structure">>,
     <<"detect_circular_dependencies">>, <<"generate_dependency_graph">>,
     <<"trace_execution">>, <<"analyze_error_logs">>,
     <<"compare_outputs">>, <<"generate_unit_tests">>,
     <<"run_tests_with_coverage">>, <<"detect_test_gaps">>,
     <<"trace_error_origin">>, <<"find_breaking_change">>,
     <<"refactor_function_name">>, <<"inspect_running_process">>,
     <<"detect_memory_leaks">>, <<"undo_last_action">>,
     <<"run_command_sandboxed">>, <<"backup_before_operation">>,
     <<"clear_cache">>, <<"ai_code_review">>, <<"generate_docs">>,
     <<"semantic_code_search">>, <<"list_directory_contents">>}

ALLOWED_RESOURCES ==
    {<<"workspace://", "tree">>, <<"workspace://", "summary">>,
     <<"system://", "info">>, <<"system://", "env">>,
     <<"system://", "disk">>, <<"system://", "processes">>,
     <<"terminal://", "history">>, <<"git://", "status">>,
     <<"git://", "diff">>, <<"git://", "log">>, <<"logs://", "app">>,
     <<"logs://", "errors">>, <<"session://", "cwd">>,
     <<"session://", "tasks">>, <<"project://", "complexity">>,
     <<"project://", "dependencies">>, <<"project://", "test-coverage">>,
     <<"monitor://", "cpu">>, <<"monitor://", "memory">>,
     <<"monitor://", "file-changes">>, <<"monitor://", "disk">>,
     <<"metrics://", "tool-performance">>, <<"cache://", "stats">>}

ALLOWED_PROMPTS ==
    {<<"terminal_system_prompt">>, <<"terminal_command_planning_prompt">>,
     <<"terminal_resource_usage_prompt">>,
     <<"terminal_execution_rules_prompt">>,
     <<"terminal_debugging_prompt">>, <<"terminal_long_running_prompt">>,
     <<"terminal_safety_prompt">>, <<"terminal_response_style_prompt">>}

\* the patterns configured for dynamic file:// resources: config.py names
\* "file://{path}" in a comment only and configures none
FILE_RESOURCE_PATTERNS == {}

AllowedFor(table, server) == IF server = "terminal" THEN table ELSE {}

-----------------------------------------------------------------------------
(* Responses.  A raw response is what the transport (or the LLM oracle)    *)
(* hands back: a mapping with a success field, an empty mapping (falsy in  *)
(* Python), or a text.                                                     *)

NoRaw    == [shape |-> "none", empty |-> TRUE,  success |-> FALSE]
RawOk    == [shape |-> "map",  empty |-> FALSE, success |-> TRUE]
RawFail  == [shape |-> "map",  empty |-> FALSE, success |-> FALSE]
RawEmpty == [shape |-> "map",  empty |-> TRUE,  success |-> FALSE]
LlmText  == [shape |-> "text", empty |-> FALSE, success |-> FALSE]
LlmEmpty == [shape |-> "text", empty |-> TRUE,  success |-> FALSE]

\* Python truthiness of a response value (None, {} and "" are falsy)
Truthy(raw) == ~raw.empty

\* what one transport await can end in
TransportOutcomes ==
    {[type |-> "ok", raw |-> r] : r \in {RawOk, RawFail, RawEmpty}}
    \cup {[type |-> t, raw |-> NoRaw] :
            t \in {"Exception", "PermissionError", "TimeoutError"}}

\* what run_llm can end in
LlmOutcomes ==
    {[type |-> "ok", raw |-> r] : r \in {LlmText, LlmEmpty}}
    \cup {[type |-> "Exception", raw |-> NoRaw]}

-----------------------------------------------------------------------------
(* Dictionaries of the client (key -> value) *)

EmptyMap == [k \in {} |-> 0]
Put(f, k, v) == [x \in (DOMAIN f) \cup {k} |-> IF x = k THEN v ELSE f[x]]
Remove(f, k) == [x \in (DOMAIN f) \ {k} |-> f[x]]
GetOr(f, k, d) == IF k \in DOMAIN f THEN f[k] ELSE d

-----------------------------------------------------------------------------
(* client.py: MCPAppClient *)

ENABLE_CACHE == TRUE

is_tool_allowed(server, tool) == tool \in AllowedFor(ALLOWED_TOOLS, server)

is_resource_allowed(server, uri) ==
    \/ uri \in AllowedFor(ALLOWED_RESOURCES, server)
    \/ StartsWith(uri, <<"file://">>)

is_prompt_allowed(server, prompt) ==
    prompt \in AllowedFor(ALLOWED_PROMPTS, server)

cache_key(kind, server, name, args) ==
    <<kind, server, name, JsonDumpsSorted(args)>>

\* _get_cached: the cached value, or None
get_cached(key) ==
    IF ENABLE_CACHE /\ key \in DOMAIN cache THEN cache[key] ELSE NoRaw

\* _set_cache: the new cache
set_cache(key, value) == IF ENABLE_CACHE THEN Put(cache, key, value) ELSE cache

\* _check_circuit with the comparison turned inclusive
circuit_is_open_inclusive(key) ==
    /\ key \in DOMAIN circuit_open_until
    /\ circuit_open_until[key] # 0
    /\ now <= circuit_open_until[key]

\* _check_circuit raises
circuit_is_open(key) ==
    /\ key \in DOMAIN circuit_open_until
    /\ circuit_open_until[key] # 0
    /\ now < circuit_open_until[key]

\* _add_to_context evicting the newest item instead of the oldest
add_to_context_pop_last(buffer, item) ==
    LET appended == Append(buffer, item)
    IN  IF Len(appended) > MAX_CONTEXT_ITEMS
        THEN SubSeq(appended, 1, Len(appended) - 1)
        ELSE appended

\* _add_to_context: the new buffer
add_to_context(buffer, item) ==
    LET appended == Append(buffer, item)
    IN  IF Len(appended) > MAX_CONTEXT_ITEMS THEN Tail(appended) ELSE appended

ContextItem(type, name, result) ==
    [type |-> type, name |-> name, result |-> result]

IdleOp ==
    [pc |-> "idle", kind |-> "none", server |-> "terminal", name |-> <<>>,
     arguments |-> NoneArgs, key |-> <<>>, attempt |-> 0, start |-> 0,
     status |-> "none", value |-> NoRaw, error |-> "none",
     transports |-> 0, blocked |-> FALSE, attempt_error |-> "none"]

NewOp(kind, server, name, args) ==
    [IdleOp EXCEPT !.pc = "entered", !.kind = kind, !.server = server,
                   !.name = name, !.arguments = args,
                   !.key = cache_key(kind, server, name, args),
                   !.start = IF kind = "resource" THEN now ELSE 0]

\* the operation ends; its local start time goes out of scope
Returned(o, value) ==
    [o EXCEPT !.pc = "done", !.status = "returned", !.value = value,
              !.start = 0]

Raised(o, error) ==
    [o EXCEPT !.pc = "done", !.status = "raised", !.error = error,
              !.start = 0]

\* the request of the next attempt goes out; the operation awaits the answer
Awaiting(o, attempt) ==
    [o EXCEPT !.pc = "awaiting", !.attempt = attempt,
              !.transports = o.transports + 1]

\* _record_failure
record_failure(key) ==
    LET n == GetOr(failure_count, key, 0) + 1
    IN  /\ failure_count' = Put(failure_count, key, n)
        /\ fresh_failures' =
               Put(fresh_failures, key, GetOr(fresh_failures, key, 0) + 1)
        /\ IF n >= FAILURE_THRESHOLD
           THEN /\ circuit_open_until' =
                       Put(circuit_open_until, key, now + CIRCUIT_BREAKER_COOLDOWN)
                /\ opened_at' = Put(opened_at, key, now)
           ELSE UNCHANGED <<circuit_open_until, opened_at>>

\* _record_success
record_success(key) ==
    /\ failure_count' = Put(failure_count, key, 0)
    /\ circuit_open_until' = Remove(circuit_open_until, key)
    /\ fresh_failures' = Put(fresh_failures, key, 0)
    /\ UNCHANGED opened_at

Summary(o) ==
    [kind |-> o.kind, key |-> o.key, status |-> o.status, value |-> o.value]

check_cancelled_never(flag) == FALSE

\* _check_cancelled raises RuntimeError("Client operation cancelled")
check_cancelled(flag) == flag

\* The synchronous head of read_resource / call_tool / get_prompt, up to
\* the first await of the transport.
ClientEnter(kind, server, name, args) ==
    LET o == NewOp(kind, server, name, args)
        allowed == CASE kind = "resource" -> is_resource_allowed(server, name)
                     [] kind = "tool"     -> is_tool_allowed(server, name)
                     [] OTHER             -> is_prompt_allowed(server, name)
    IN  /\ op.pc \in {"idle", "done"}
        /\ prev' = Summary(op)
        /\ calls' = calls + 1
        /\ op' = IF check_cancelled(cancelled) THEN Raised(o, "RuntimeError")
                 ELSE IF ~allowed THEN Raised(o, "PermissionError")
                 ELSE IF kind # "prompt" /\ circuit_is_open(o.key)
                      THEN [Raised(o, "ResourceReadError") EXCEPT !.blocked = TRUE]
                 ELSE IF Truthy(get_cached(o.key))
                      THEN Returned(o, get_cached(o.key))
                 ELSE Awaiting(o, 0)
        /\ UNCHANGED <<cancelled, cache, failure_count, circuit_open_until,
                       context_buffer, now, opened_at, fresh_failures, added>>

\* the attempt in flight has ended: what it raised ("none" when it returned)
Attempted(o, e) == [o EXCEPT !.attempt_error = e]

\* the success path of read_resource / call_tool
AttemptSucceeds(raw) ==
    /\ record_success(op.key)
    /\ cache' = set_cache(op.key, raw)
    /\ context_buffer' =
           add_to_context(context_buffer, ContextItem(op.kind, op.name, raw))
    /\ added' = added + 1
    /\ op' = Returned(Attempted(op, "none"), raw)

\* the except branch giving up one attempt too late
AttemptFails_OffByOne(e, exhausted_error) ==
    /\ record_failure(op.key)
    /\ op' = IF op.attempt = MAX_RETRIES + 1
             THEN Raised(Attempted(op, e), exhausted_error)
             ELSE Awaiting(Attempted(op, e), op.attempt + 1)
    /\ UNCHANGED <<cache, context_buffer, added>>

\* the except Exception branch of read_resource / call_tool on the
\* exception e of the attempt
AttemptFails(e, exhausted_error) ==
    /\ record_failure(op.key)
    /\ op' = IF op.attempt = MAX_RETRIES
             THEN Raised(Attempted(op, e), exhausted_error)
             ELSE IF op.kind = "resource"
                     /\ now - op.start > RESOURCE_TIMEOUT_SECONDS
                  THEN Raised(Attempted(op, e), "TimeoutError")
             ELSE Awaiting(Attempted(op, e), op.attempt + 1)
    /\ UNCHANGED <<cache, context_buffer, added>>

\* the exception of the attempt leaves the operation
Propagates(error) ==
    /\ op' = Raised(Attempted(op, error), error)
    /\ UNCHANGED <<cache, failure_count, circuit_open_until, context_buffer,
                   opened_at, fresh_failures, added>>

\* read_resource: the transport answers the attempt in flight
ResourceRespond(out) ==
    /\ op.pc = "awaiting" /\ op.kind = "resource"
    /\ CASE out.type = "ok" -> AttemptSucceeds(out.raw)
         [] out.type \in {"PermissionError", "TimeoutError"} ->
                Propagates(out.type)
         [] OTHER -> AttemptFails(out.type, "ResourceReadError")
    /\ UNCHANGED <<cancelled, now, prev, calls>>

\* call_tool: the transport answers the attempt in flight
ToolRespond(out) ==
    /\ op.pc = "awaiting" /\ op.kind = "tool"
    /\ CASE out.type = "ok" -> AttemptSucceeds(out.raw)
         [] out.type = "PermissionError" -> Propagates(out.type)
         [] OTHER -> AttemptFails(out.type, "ToolExecutionError")
    /\ UNCHANGED <<cancelled, now, prev, calls>>

\* get_prompt: the transport answers, then the LLM oracle runs
PromptRespond(out, llm) ==
    /\ op.pc = "awaiting" /\ op.kind = "prompt"
    /\ IF out.type # "ok" THEN Propagates(out.type)
       ELSE IF llm.type # "ok" THEN Propagates(llm.type)
       ELSE /\ cache' = set_cache(op.key, llm.raw)
            /\ context_buffer' =
                   add_to_context(context_buffer,
                                  ContextItem("prompt", op.name, llm.raw))
            /\ added' = added + 1
            /\ op' = Returned(op, llm.raw)
            /\ UNCHANGED <<failure_count, circuit_open_until, opened_at,
                           fresh_failures>>
    /\ UNCHANGED <<cancelled, now, prev, calls>>

\* cancel()
Cancel ==
    /\ ~cancelled
    /\ cancelled' = TRUE
    /\ UNCHANGED <<cache, failure_count, circuit_open_until, context_buffer,
                   now, op, opened_at, fresh_failures, prev, calls, added>>

\* the wall clock advances; the history notes the circuits whose cooldown
\* ends with it
Tick ==
    /\ now < MaxTicks * TickSeconds
    /\ now' = now + TickSeconds
    /\ fresh_failures' =
           [key \in DOMAIN fresh_failures |->
               IF circuit_is_open(key) /\ now' >= circuit_open_until[key]
               THEN 0 ELSE fresh_failures[key]]
    /\ UNCHANGED <<cancelled, cache, failure_count, circuit_open_until,
                   context_buffer, op, opened_at, prev, calls, added>>

-----------------------------------------------------------------------------
(* The planner (src/c/planner.py).  A SubTask is [id, tool_name,           *)
(* arguments, dependencies] with dependencies a list of ids as the LLM     *)
(* wrote it; a TaskPlan is [subtasks, execution_order, validation_errors]. *)

SubTask(id, tool_name, arguments, dependencies) ==
    [id |-> id, tool_name |-> tool_name, arguments |-> arguments,
     dependencies |-> dependencies]

TaskPlan(subtasks, execution_order, validation_errors) ==
    [returned |-> TRUE, raised |-> "none", subtasks |-> subtasks,
     execution_order |-> execution_order,
     validation_errors |-> validation_errors]

\* no plan has been asked for yet
NoPlan ==
    [returned |-> FALSE, raised |-> "none", subtasks |-> <<>>,
     execution_order |-> <<>>, validation_errors |-> <<>>]

\* decompose_task raised error and returned no plan
PlanRaised(error) == [NoPlan EXCEPT !.raised = error]

InSeq(x, s) == \E i \in 1..Len(s) : s[i] = x

\* TaskPlan.get_task: the index of the first subtask with the id, 0 for None
get_task(subtasks, task_id) ==
    IF \E i \in 1..Len(subtasks) : subtasks[i].id = task_id
    THEN CHOOSE i \in 1..Len(subtasks) :
             /\ subtasks[i].id = task_id
             /\ \A j \in 1..(i - 1) : subtasks[j].id # task_id
    ELSE 0

\* {task.id: len(task.dependencies) for task in subtasks}
InDegree(subtasks) ==
    [id \in {subtasks[i].id : i \in 1..Len(subtasks)} |->
        LET last == CHOOSE i \in 1..Len(subtasks) :
                        /\ subtasks[i].id = id
                        /\ \A j \in (i + 1)..Len(subtasks) : subtasks[j].id # id
        IN  Len(subtasks[last].dependencies)]

RECURSIVE InitialQueue(_, _, _)
InitialQueue(subtasks, in_degree, i) ==
    IF i > Len(subtasks) THEN <<>>
    ELSE IF in_degree[subtasks[i].id] = 0
         THEN <<subtasks[i].id>> \o InitialQueue(subtasks, in_degree, i + 1)
         ELSE InitialQueue(subtasks, in_degree, i + 1)

\* the inner loop of compute_execution_order for one dequeued task_id
RECURSIVE Relax(_, _, _, _, _)
Relax(subtasks, i, task_id, queue, in_degree) ==
    IF i > Len(subtasks) THEN [queue |-> queue, in_degree |-> in_degree]
    ELSE LET task == subtasks[i]
         IN  IF InSeq(task_id, task.dependencies)
             THEN LET d == [in_degree EXCEPT ![task.id] = @ - 1]
                  IN  Relax(subtasks, i + 1, task_id,
                            IF d[task.id] = 0 THEN Append(queue, task.id)
                                              ELSE queue,
                            d)
             ELSE Relax(subtasks, i + 1, task_id, queue, in_degree)

RECURSIVE Kahn(_, _, _, _)
Kahn(subtasks, queue, order, in_degree) ==
    IF queue = <<>> THEN order
    ELSE LET task_id == Head(queue)
             step == Relax(subtasks, 1, task_id, Tail(queue), in_degree)
         IN  Kahn(subtasks, step.queue, Append(order, task_id),
                  step.in_degree)

compute_execution_order(subtasks) ==
    LET in_degree == InDegree(subtasks)
    IN  Kahn(subtasks, InitialQueue(subtasks, in_degree, 1), <<>>, in_degree)

\* has_cycle of _has_circular_dependencies; the result carries visited on
RECURSIVE has_cycle(_, _, _, _)
RECURSIVE has_cycle_deps(_, _, _, _, _)
has_cycle(subtasks, task_id, visited, rec_stack) ==
    LET i == get_task(subtasks, task_id)
    IN  IF i = 0
        THEN [found |-> FALSE, visited |-> visited \cup {task_id}]
        ELSE has_cycle_deps(subtasks, subtasks[i].dependencies, 1,
                            visited \cup {task_id}, rec_stack \cup {task_id})

has_cycle_deps(subtasks, deps, k, visited, rec_stack) ==
    IF k > Len(deps) THEN [found |-> FALSE, visited |-> visited]
    ELSE IF deps[k] \notin visited
         THEN LET sub == has_cycle(subtasks, deps[k], visited, rec_stack)
              IN  IF sub.found THEN sub
                  ELSE has_cycle_deps(subtasks, deps, k + 1, sub.visited,
                                      rec_stack)
         ELSE IF deps[k] \in rec_stack
              THEN [found |-> TRUE, visited |-> visited]
              ELSE has_cycle_deps(subtasks, deps, k + 1, visited, rec_stack)

RECURSIVE has_cycle_from(_, _, _)
has_cycle_from(subtasks, i, visited) ==
    IF i > Len(subtasks) THEN FALSE
    ELSE IF subtasks[i].id \notin visited
         THEN LET sub == has_cycle(subtasks, subtasks[i].id, visited, {})
              IN  sub.found \/ has_cycle_from(subtasks, i + 1, sub.visited)
         ELSE has_cycle_from(subtasks, i + 1, visited)

\* a detector that only sees a task naming itself
has_circular_dependencies_self_only(subtasks) ==
    \E i \in 1..Len(subtasks) : InSeq(subtasks[i].id, subtasks[i].dependencies)

has_circular_dependencies(subtasks) == has_cycle_from(subtasks, 1, {})

RECURSIVE validate_order_from(_, _, _, _)
validate_order_from(subtasks, execution_order, k, completed) ==
    IF k > Len(execution_order) THEN TRUE
    ELSE LET i == get_task(subtasks, execution_order[k])
         IN  /\ i # 0
             /\ \A d \in 1..Len(subtasks[i].dependencies) :
                    subtasks[i].dependencies[d] \in completed
             /\ validate_order_from(subtasks, execution_order, k + 1,
                                    completed \cup {execution_order[k]})

validate_execution_order(subtasks, execution_order) ==
    validate_order_from(subtasks, execution_order, 1, {})

\* the tools server.py registers (the @mcp.tool functions of src/s/tools.py):
\* what list_tools answers, kept in MCPAppClient._tools by load_capabilities
ServerTools ==
    {<<"run_command">>, <<"interactive_command">>, <<"read_file">>,
     <<"write_file">>, <<"list_directory">>, <<"search_files">>,
     <<"replace_in_file">>, <<"list_processes">>, <<"kill_process">>,
     <<"get_env">>, <<"system_info">>, <<"git_status">>, <<"git_diff">>,
     <<"git_commit">>, <<"tail_file">>, <<"check_port">>, <<"docker_ps">>,
     <<"create_report_from_results">>, <<"analyze_code_quality">>,
     <<"detect_security_issues">>, <<"profile_code_performance">>,
     <<"analyze_project_structure">>, <<"detect_circular_dependencies">>,
     <<"generate_dependency_graph">>, <<"trace_execution">>,
     <<"analyze_error_logs">>, <<"compare_outputs">>,
     <<"generate_unit_tests">>, <<"run_tests_with_coverage">>,
     <<"detect_test_gaps">>, <<"trace_error_origin">>,
     <<"find_breaking_change">>, <<"refactor_function_name">>,
     <<"inspect_running_process">>, <<"detect_memory_leaks">>,
     <<"undo_last_action">>, <<"run_command_sandboxed">>,
     <<"backup_before_operation">>, <<"clear_cache">>, <<"ai_code_review">>,
     <<"generate_docs">>, <<"semantic_code_search">>}

\* the built-in list of get_valid_tools_from_client, for a planner that was
\* given no client
DefaultTools ==
    {<<"run_command">>, <<"interactive_command">>, <<"read_file">>,
     <<"write_file">>, <<"list_directory">>, <<"search_files">>,
     <<"replace_in_file">>, <<"list_processes">>, <<"kill_process">>,
     <<"get_env">>, <<"system_info">>, <<"git_status">>, <<"git_diff">>,
     <<"git_commit">>, <<"tail_file">>, <<"check_port">>, <<"docker_ps">>}

\* the mcp_client of the planner: TerminalAgent hands it the connected
\* client (agent.py 54), whose _tools load_capabilities has filled
PlannerClient == [given |-> TRUE, tools |-> ServerTools]

get_valid_tools_from_client(mcp_client) ==
    IF mcp_client.given THEN mcp_client.tools ELSE DefaultTools

\* validate_with_tools reporting no tool
InvalidToolErrors_Unchecked(subtasks, valid_tools, i) == <<>>

RECURSIVE InvalidToolErrors(_, _, _)
InvalidToolErrors(subtasks, valid_tools, i) ==
    IF i > Len(subtasks) THEN <<>>
    ELSE ( IF subtasks[i].tool_name \notin valid_tools
           THEN << <<"Invalid tool", subtasks[i].id>> >>
           ELSE <<>> )
         \o InvalidToolErrors(subtasks, valid_tools, i + 1)

RECURSIVE UnknownDepsOf(_, _, _)
UnknownDepsOf(task, task_ids, d) ==
    IF d > Len(task.dependencies) THEN <<>>
    ELSE ( IF task.dependencies[d] \notin task_ids
           THEN << <<"Unknown dependency", task.id, task.dependencies[d]>> >>
           ELSE <<>> )
         \o UnknownDepsOf(task, task_ids, d + 1)

RECURSIVE UnknownDependencyErrors(_, _, _)
UnknownDependencyErrors(subtasks, task_ids, i) ==
    IF i > Len(subtasks) THEN <<>>
    ELSE UnknownDepsOf(subtasks[i], task_ids, 1)
         \o UnknownDependencyErrors(subtasks, task_ids, i + 1)

\* TaskPlan.validate_with_tools: the list of validation_errors it leaves
validate_with_tools(subtasks, execution_order, valid_tools) ==
    InvalidToolErrors(subtasks, valid_tools, 1)
    \o ( IF has_circular_dependencies(subtasks)
         THEN << <<"Circular dependency detected in task plan">> >>
         ELSE <<>> )
    \o UnknownDependencyErrors(subtasks,
           {subtasks[i].id : i \in 1..Len(subtasks)}, 1)
    \o ( IF ~validate_execution_order(subtasks, execution_order)
         THEN << <<"Invalid execution order - dependencies not satisfied">> >>
         ELSE <<>> )

FallbackSubtasks ==
    << SubTask("fallback_1", <<"run_command">>,
               Dict(<< <<"command", <<"e", "c", "h", "o">>>> >>), <<>>) >>

\* what the LLM oracle answers to the planning prompt
\* raises: llm.generate raised (run_llm raises RuntimeError when Ollama
\* fails); parses: json.loads accepts the text left by the repairs of lines
\* 345-361; has_fields: the parsed value is an object whose subtasks are
\* objects with the keys id, description, tool and arguments
Unparseable ==
    [raises |-> FALSE, parses |-> FALSE, has_fields |-> FALSE,
     subtasks |-> <<>>]
Parsed(subtasks) ==
    [raises |-> FALSE, parses |-> TRUE, has_fields |-> TRUE,
     subtasks |-> subtasks]
MissingFields(subtasks) ==
    [raises |-> FALSE, parses |-> TRUE, has_fields |-> FALSE,
     subtasks |-> subtasks]
OracleFails ==
    [raises |-> TRUE, parses |-> FALSE, has_fields |-> FALSE,
     subtasks |-> <<>>]

\* HierarchicalPlanner.decompose_task on what the LLM did.  When generate
\* raised, the handler of line 386 reads response (line 388), a local that
\* was never assigned: UnboundLocalError leaves the handler, and the second
\* except clause of the same try does not catch it.
decompose_task(response) ==
    IF response.raises
    THEN PlanRaised("UnboundLocalError")
    ELSE IF response.parses /\ response.has_fields
    THEN LET order == compute_execution_order(response.subtasks)
         IN  TaskPlan(response.subtasks, order,
                      validate_with_tools(response.subtasks, order,
                                          get_valid_tools_from_client(
                                              PlannerClient)))
    ELSE TaskPlan(FallbackSubtasks,
                  compute_execution_order(FallbackSubtasks), <<>>)

-----------------------------------------------------------------------------
(* The callers of the client in SpecClient: any code holding the client    *)
(* (run_task, the demos of run.py) calling its three operations.           *)

ArgsSearch  == Dict(<<<<"keyword", <<"p", "y">>>>, <<"path", <<".">>>>>>)
ArgsSearchR == Dict(<<<<"path", <<".">>>>, <<"keyword", <<"p", "y">>>>>>)

UriCwd     == <<"session://", "cwd">>
UriFile    == <<"file://", "/etc/passwd">>
UriUnknown == <<"secret://", "keys">>

ClientCalls ==
    {<<"tool", <<"search_files">>, ArgsSearch>>,
     <<"tool", <<"search_files">>, ArgsSearchR>>,
     <<"resource", UriCwd, NoneArgs>>,
     <<"resource", UriFile, NoneArgs>>,
     <<"resource", UriUnknown, NoneArgs>>,
     <<"prompt", <<"terminal_system_prompt">>, Dict(<<>>)>>}

DriverCall ==
    /\ calls < MaxCalls
    /\ \E c \in ClientCalls : ClientEnter(c[1], "terminal", c[2], c[3])

InitPlanner == task_plan = NoPlan /\ oracle = Unparseable

-----------------------------------------------------------------------------
(* The policy engine (src/c/policy.py) *)

blocked_commands ==
    {<<"r", "m", " ", "-", "r", "f", " ", "/">>,
     <<"s", "h", "u", "t", "d", "o", "w", "n">>,
     <<"r", "e", "b", "o", "o", "t">>,
     <<"m", "k", "f", "s">>,
     <<"d", "d", " ", "i", "f", "=", "/", "d", "e", "v", "/", "z", "e", "r", "o">>,
     <<"c", "h", "m", "o", "d", " ", "7", "7", "7", " ", "/">>,
     <<"c", "h", "o", "w", "n", " ", "-", "R">>}

dangerous_patterns ==
    {<<"r", "m", " ", "-", "r", "f">>,
     <<"/", "d", "e", "v", "/", "s", "d", "a">>,
     <<"/", "d", "e", "v", "/", "n", "u", "l", "l">>,
     <<">", "/", "d", "e", "v", "/", "s", "d", "a">>}

system_directories ==
    {<<"/", "e", "t", "c", "/">>, <<"/", "s", "y", "s", "/">>,
     <<"/", "p", "r", "o", "c", "/">>, <<"/", "b", "o", "o", "t", "/">>}

mutating_tools ==
    {<<"run_command">>, <<"interactive_command">>, <<"write_file">>,
     <<"replace_in_file">>, <<"kill_process">>, <<"git_commit">>}

\* PolicyEngine.evaluate(action_type, {"name": name, "arguments": arguments});
\* a resource payload {"uri": uri} has no name
evaluate(dry_run, action_type, name, arguments) ==
    LET command == ArgGet(arguments, "command", <<>>)
        message == ArgGet(arguments, "message", <<>>)
        path == ArgGet(arguments, "path", <<>>)
        process_id == ArgGet(arguments, "process_id", <<>>)
        is_tool == action_type = "tool"
    IN  IF /\ is_tool
           /\ name \in {<<"run_command">>, <<"interactive_command">>}
           /\ \/ \E blocked \in blocked_commands :
                     Contains(LowerStr(command), blocked)
              \/ \E pattern \in dangerous_patterns :
                     Contains(LowerStr(command), pattern)
        THEN "deny"
        ELSE IF /\ is_tool /\ name = <<"git_commit">>
                /\ \/ Contains(message, <<"-", "-", "f", "o", "r", "c", "e">>)
                   \/ Contains(message, <<"-", "f">>)
        THEN "deny"
        ELSE IF /\ is_tool /\ name = <<"write_file">>
                /\ \/ StartsWith(path, <<"/">>) /\ ~StartsWith(path, <<"/", "h", "o", "m", "e">>)
                   \/ Contains(path, <<".", ".">>)
                   \/ \E p \in system_directories : StartsWith(path, p)
        THEN "deny"
        ELSE IF /\ is_tool /\ name = <<"kill_process">>
                /\ (process_id = <<>> \/ process_id = <<"1">>)
        THEN "deny"
        ELSE IF dry_run /\ is_tool /\ name \in mutating_tools
        THEN "dry_run"
        ELSE "allow"

-----------------------------------------------------------------------------
(* The long-term memory (src/c/memory.py) *)

\* the file terminal_memory.json does not exist
NoFile == [exists |-> FALSE, content |-> <<>>]

\* json.dump(self.memory, f) into the file
save(mem) == [exists |-> TRUE, content |-> mem]

\* self.memory[-limit:]; -0 is 0, so a limit of 0 gives the whole list
retrieve(mem, limit) ==
    IF limit = 0 \/ limit >= Len(mem) THEN mem
    ELSE SubSeq(mem, Len(mem) - limit + 1, Len(mem))

MemoryData == {<<"question">>, <<"answer">>}
MemorySources == {"advanced_terminal_agent"}

\* LongTermMemory.store
Store(item, source) ==
    /\ Len(memory) < MaxEntries
    /\ memory' = Append(memory,
                        [timestamp |-> now, source |-> source, data |-> item])
    /\ memory_file' = save(memory')
    /\ UNCHANGED <<seen, retrieved, retrievals>>

\* LongTermMemory.retrieve
Retrieve(limit) ==
    /\ retrievals < MaxRetrievals
    /\ retrieved' = retrieve(memory, limit)
    /\ seen' = memory
    /\ retrievals' = retrievals + 1
    /\ UNCHANGED <<memory, memory_file>>

\* LongTermMemory.clear
Clear ==
    /\ memory' = <<>>
    /\ memory_file' = save(memory')
    /\ UNCHANGED <<seen, retrieved, retrievals>>

-----------------------------------------------------------------------------
(* The self-correcting executor (src/c/agentic_loop.py) and the agent      *)
(* facade (src/c/agent.py).  answer() is a process: it stands at a_pc and  *)
(* waits, at "cwd", "info" and "dispatch", for the client call it made.    *)
(* Its rollback manager, execution graph and session context are locals    *)
(* that no step reads back and are left out.                               *)

\* TerminalAgent.policy = PolicyEngine(dry_run=False)
AgentDryRun == FALSE

\* no evaluation has been asked for yet
NoPayload == [name |-> <<>>, arguments |-> NoneArgs]

InitPolicy ==
    policy_dry_run = AgentDryRun /\ payload = NoPayload /\ decided = "none"

UriInfo == <<"system://", "info">>

\* {"success": False, "error": str(e)}
ErrorResult == [shape |-> "map", empty |-> FALSE, success |-> FALSE]

\* SelfCorrectingAgent._extract_tool_result
extract_tool_result(raw) ==
    IF raw.shape = "map" THEN raw
    ELSE [shape |-> "map", empty |-> FALSE, success |-> FALSE]

\* Observation.success of observe()
observe(result) == IF result.shape = "map" THEN result.success ELSE FALSE

\* while attempt < self.max_retries (line 181); the test of line 215,
\* attempt >= self.max_retries, is its negation
attempts_left_inclusive(attempt) == attempt <= max_retries

attempts_left(attempt) == attempt < max_retries

\* args[k] = v on a dict
DictSet(args, k, v) ==
    IF HasKey(args, k)
    THEN Dict([i \in 1..Len(args.items) |->
                  IF args.items[i][1] = k THEN <<k, v>> ELSE args.items[i]])
    ELSE Dict(Append(args.items, <<k, v>>))

\* the report text _enhance_arguments_with_results builds
ReportText == <<"report">>

\* TerminalAgent._enhance_arguments_with_results
enhance_arguments_with_results(task, previous_results) ==
    IF /\ task.tool_name = <<"write_file">>
       /\ ArgGet(task.arguments, "content", <<>>) = <<>>
       /\ \E i \in 1..Len(previous_results) :
              previous_results[i].success /\ Truthy(previous_results[i].result)
    THEN DictSet(task.arguments, "content", ReportText)
    ELSE task.arguments

deps_complete_any_record(task, results) ==
    \A d \in 1..Len(task.dependencies) :
        \E i \in 1..Len(results) :
            results[i].task_id = task.dependencies[d]

\* all(any(r["task_id"] == dep_id and r["success"] ...) for dep_id in ...)
deps_complete(task, results) ==
    \A d \in 1..Len(task.dependencies) :
        \E i \in 1..Len(results) :
            results[i].task_id = task.dependencies[d] /\ results[i].success

IdleExec ==
    [current_tool |-> <<>>, current_args |-> NoneArgs, attempt |-> 0,
     dispatches |-> 0, status |-> "none", result |-> NoRaw,
     reflections |-> 0, reflection |-> "none"]

\* a suggested action of a reflection, as the LLM wrote it
Suggestion(has_tool, tool, has_arguments, arguments) ==
    [is_mapping |-> TRUE, has_tool |-> has_tool, tool |-> tool,
     has_arguments |-> has_arguments, arguments |-> arguments]

\* a suggested action that is not a JSON object
NotAMapping ==
    [is_mapping |-> FALSE, has_tool |-> FALSE, tool |-> <<>>,
     has_arguments |-> FALSE, arguments |-> NoneArgs]

ArgsWipe == Dict(<< <<"command", <<"r", "m", " ", "-", "r", "f", " ", "/">>>> >>)
ArgsReport == Dict(<< <<"path", <<"r", ".", "t", "x", "t">>>>, <<"content", <<>>>> >>)

\* what llm.generate(prompt) ends in inside reflect(): the call raises, or
\* it returns a text that json.loads parses or not, with a reflection_type
\* that ReflectionType knows or not, and with its suggested_actions
ReflectionResponse(type, parses, known_type, suggested_actions) ==
    [type |-> type, parses |-> parses, known_type |-> known_type,
     suggested_actions |-> suggested_actions]

Suggests(suggested_actions) ==
    ReflectionResponse("ok", TRUE, TRUE, suggested_actions)

reflection_parsed_unchecked(response) == TRUE

\* the try of reflect() runs to its return (lines 124-152)
reflection_parsed(response) ==
    response.type = "ok" /\ response.parses /\ response.known_type

\* Reflection.suggested_actions as reflect() returns it: those of the
\* response, or [] of the fallback reflection (lines 154-165)
reflect(response) ==
    IF reflection_parsed(response) THEN response.suggested_actions ELSE <<>>

\* what the reflection came to
reflection_kind(response) ==
    IF response.type # "ok" \/ ~response.parses \/ ~response.known_type
    THEN "unparseable"
    ELSE IF response.suggested_actions = <<>> THEN "empty" ELSE "suggests"

ReflectionOutcomes ==
    {Suggests(<<>>),
     Suggests(<<Suggestion(TRUE, <<"run_command">>, TRUE, ArgsWipe)>>),
     Suggests(<<Suggestion(FALSE, <<>>, FALSE, NoneArgs)>>),
     Suggests(<<NotAMapping>>)}

\* the number of policy evaluations in log that match a client call
Matching(log, kind, name, args) ==
    Cardinality({i \in 1..Len(log) :
                    log[i] = [action_type |-> kind, name |-> name,
                              arguments |-> args]})

\* the agent calls the client: the call enters, and the history notes how
\* many of the evaluations made since the call before it match it
AgentCall(log, kind, name, args) ==
    /\ ClientEnter(kind, "terminal", name, args)
    /\ gated' = Matching(log, kind, name, args)
    /\ gate_log' = <<>>

\* _gate_resource and the read_resource it guards (agent.py 184-204)
GatherResource(uri, next_pc) ==
    LET decision == evaluate(policy_dry_run, "resource", uri, NoneArgs)
        log == Append(gate_log,
                      [action_type |-> "resource", name |-> uri,
                       arguments |-> NoneArgs])
    IN  /\ op.pc # "awaiting"
        /\ a_pc' = next_pc
        /\ IF decision = "allow"
           THEN AgentCall(log, "resource", uri, NoneArgs)
           ELSE /\ gate_log' = log
                /\ UNCHANGED <<clientVars, gated>>
        /\ UNCHANGED <<plannerVars, idx, execution_results, exec, synthesis>>

GatherCwd == a_pc = "start" /\ GatherResource(UriCwd, "cwd")

GatherInfo == a_pc = "cwd" /\ GatherResource(UriInfo, "info")

\* the plans the LLM writes for the agent's questions
AgentPlanResponses ==
    {Unparseable, OracleFails,
     Parsed(<< SubTask("task_1", <<"search_files">>, ArgsSearch, <<>>),
               SubTask("task_2", <<"write_file">>, ArgsReport, <<"task_1">>) >>),
     Parsed(<< SubTask("task_1", <<"run_command">>, ArgsWipe, <<>>) >>),
     Parsed(<< SubTask("task_1", <<"write_file">>, ArgsReport, <<"task_3">>),
               SubTask("task_2", <<"search_files">>, ArgsSearch, <<"task_1">>),
               SubTask("task_3", <<"search_files">>, ArgsSearch, <<>>) >>),
     Parsed(<< SubTask("task_1", <<"write_file">>, ArgsReport, <<>>),
               SubTask("task_2", <<"search_files">>, ArgsSearch, <<"task_1">>) >>)}

\* planner.decompose_task (agent.py 214), the LLM writing one of responses
PlanWith(responses) ==
    /\ a_pc = "info" /\ op.pc # "awaiting"
    /\ \E response \in responses :
           /\ task_plan' = decompose_task(response)
           /\ oracle' = response
    /\ a_pc' = IF task_plan'.returned THEN "tasks" ELSE "raised"
    /\ idx' = 1
    /\ execution_results' = <<>>
    /\ UNCHANGED <<clientVars, exec, gate_log, gated, synthesis>>

Plan == PlanWith(AgentPlanResponses)

\* one pass of the loop over task_plan.subtasks up to the first dispatch of
\* act_with_retry (agent.py 251-283, agentic_loop.py 177-195)
RunTask ==
    /\ a_pc = "tasks" /\ idx <= Len(task_plan.subtasks)
    /\ LET task == task_plan.subtasks[idx]
           enhanced_args ==
               enhance_arguments_with_results(task, execution_results)
           decision ==
               evaluate(policy_dry_run, "tool", task.tool_name, task.arguments)
           log == Append(gate_log,
                         [action_type |-> "tool", name |-> task.tool_name,
                          arguments |-> task.arguments])
       IN  IF ~deps_complete(task, execution_results)
           THEN /\ idx' = idx + 1
                /\ UNCHANGED <<clientVars, a_pc, exec, gate_log, gated>>
           ELSE IF decision = "deny"
           THEN /\ a_pc' = "raised"
                /\ gate_log' = log
                /\ UNCHANGED <<clientVars, idx, exec, gated>>
           ELSE IF decision = "dry_run"
           THEN /\ idx' = idx + 1
                /\ gate_log' = log
                /\ UNCHANGED <<clientVars, a_pc, exec, gated>>
           ELSE IF attempts_left(0)
           THEN /\ exec' = [IdleExec EXCEPT !.current_tool = task.tool_name,
                                            !.current_args = enhanced_args,
                                            !.attempt = 1, !.dispatches = 1,
                                            !.status = "running"]
                /\ AgentCall(log, "tool", task.tool_name, enhanced_args)
                /\ a_pc' = "dispatch"
                /\ UNCHANGED idx
           ELSE /\ a_pc' = "raised"
                /\ gate_log' = log
                /\ UNCHANGED <<clientVars, idx, exec, gated>>
    /\ UNCHANGED <<plannerVars, execution_results, synthesis>>

\* act_with_retry returns result to answer(), which records it; after is
\* exec with the reflections made before the return
ActReturns(after, result) ==
    /\ exec' = [after EXCEPT !.status = "returned", !.result = result]
    /\ execution_results' =
           Append(execution_results,
                  [task_id |-> task_plan.subtasks[idx].id,
                   tool |-> task_plan.subtasks[idx].tool_name,
                   success |-> observe(result),
                   result |-> result])
    /\ idx' = idx + 1
    /\ a_pc' = "tasks"
    /\ UNCHANGED <<clientVars, gate_log, gated>>

\* the result act_with_retry observes when the client call has ended
observed_result ==
    IF op.status = "returned" THEN extract_tool_result(op.value)
    ELSE ErrorResult

\* the client call of act_with_retry has ended: observe, and return, or
\* reflect and dispatch the first suggested action (agentic_loop.py 197-236);
\* reflections is what llm.generate can answer to the prompt of reflect()
ObserveWith(reflections) ==
    /\ a_pc = "dispatch" /\ op.pc = "done"
    /\ LET result == observed_result
       IN  IF observe(result) \/ ~attempts_left(exec.attempt)
           THEN ActReturns(exec, result)
           ELSE \E response \in reflections :
                  LET suggested_actions == reflect(response)
                      reflected ==
                          [exec EXCEPT !.reflections = exec.reflections + 1,
                                       !.reflection = reflection_kind(response)]
                  IN
                  IF suggested_actions = <<>>
                  THEN ActReturns(reflected, result)
                  ELSE IF ~suggested_actions[1].is_mapping
                  THEN /\ exec' = [reflected EXCEPT !.status = "raised",
                                                    !.result = result]
                       /\ a_pc' = "raised"
                       /\ UNCHANGED <<clientVars, idx, execution_results,
                                      gate_log, gated>>
                  ELSE LET suggested == suggested_actions[1]
                           tool == IF suggested.has_tool THEN suggested.tool
                                   ELSE exec.current_tool
                           args == IF suggested.has_arguments
                                   THEN suggested.arguments ELSE Dict(<<>>)
                       IN  IF attempts_left(exec.attempt)
                           THEN /\ exec' = [reflected EXCEPT
                                               !.current_tool = tool,
                                               !.current_args = args,
                                               !.attempt = exec.attempt + 1,
                                               !.dispatches = exec.dispatches + 1,
                                               !.result = result]
                                /\ AgentCall(gate_log, "tool", tool, args)
                                /\ UNCHANGED <<a_pc, idx, execution_results>>
                           ELSE ActReturns(reflected, result)
    /\ UNCHANGED <<plannerVars, synthesis>>

Observe == ObserveWith(ReflectionOutcomes)

\* the final prompt has not been sent
NoSynthesis == [type |-> "none", raw |-> NoRaw]

\* what llm.generate(final_prompt) can end in: run_llm returns the text of
\* the model or raises RuntimeError (ollama_actual.py 49-91)
SynthesisOutcomes ==
    {[type |-> "ok", raw |-> LlmText], [type |-> "Exception", raw |-> NoRaw]}

\* the plan is done: context management, the final answer, memory
\* (agent.py 298-371).  The call of line 342 stands in no try: what it
\* raises leaves answer() before memory.store is reached.
Finish ==
    /\ a_pc = "tasks" /\ idx > Len(task_plan.subtasks)
    /\ \E final_answer \in SynthesisOutcomes :
           /\ synthesis' = final_answer
           /\ IF final_answer.type = "ok"
              THEN /\ Store(<<"answer">>, "advanced_terminal_agent")
                   /\ a_pc' = "returned"
              ELSE /\ a_pc' = "raised"
                   /\ UNCHANGED memoryVars
    /\ UNCHANGED <<clientVars, plannerVars, idx, execution_results, exec,
                   gate_log, gated>>

InitAgent ==
    /\ a_pc = "start"
    /\ idx = 0
    /\ execution_results = <<>>
    /\ exec = IdleExec
    /\ gate_log = <<>>
    /\ gated = 0
    /\ synthesis = NoSynthesis

-----------------------------------------------------------------------------
(* The session context (src/c/context_manager.py).  A Python value is a    *)
(* record [py, text, elems]: py is its type, text the words of a str or    *)
(* the digits of an int, elems the elements of a list, tuple or set, or    *)
(* the keys and values of a dict in turn.  A JSON document is a record     *)
(* [js, text, elems] built the same way.                                   *)

PyStr(words) == [py |-> "str", text |-> words, elems |-> <<>>]
PyInt(digits) == [py |-> "int", text |-> <<digits>>, elems |-> <<>>]
PyList(elements) == [py |-> "list", text |-> <<>>, elems |-> elements]
PyTuple(elements) == [py |-> "tuple", text |-> <<>>, elems |-> elements]
PySet(elements) == [py |-> "set", text |-> <<>>, elems |-> elements]
\* {key: value, ...} from <<key, value, ...>>
PyDict(keys_values) == [py |-> "dict", text |-> <<>>, elems |-> keys_values]

\* json.dump raises TypeError on a value it cannot encode
RECURSIVE serialisable(_)
serialisable(value) ==
    CASE value.py \in {"str", "int"} -> TRUE
      [] value.py \in {"list", "tuple"} ->
             \A i \in 1..Len(value.elems) : serialisable(value.elems[i])
      [] value.py = "dict" ->
             \A i \in 1..Len(value.elems) :
                 IF i % 2 = 1 THEN value.elems[i].py \in {"str", "int"}
                 ELSE serialisable(value.elems[i])
      [] OTHER -> FALSE

\* json.dump: lists and tuples are written as arrays, the keys of a dict
\* as strings
RECURSIVE json_dump(_)
json_dump(value) ==
    CASE value.py = "str" ->
             [js |-> "string", text |-> value.text, elems |-> <<>>]
      [] value.py = "int" ->
             [js |-> "number", text |-> value.text, elems |-> <<>>]
      [] value.py \in {"list", "tuple"} ->
             [js |-> "array", text |-> <<>>,
              elems |-> [i \in 1..Len(value.elems) |->
                            json_dump(value.elems[i])]]
      [] OTHER ->
             [js |-> "object", text |-> <<>>,
              elems |-> [i \in 1..Len(value.elems) |->
                            IF i % 2 = 1
                            THEN [js |-> "string",
                                  text |-> value.elems[i].text,
                                  elems |-> <<>>]
                            ELSE json_dump(value.elems[i])]]

\* json.load: arrays are read as lists, objects as dicts with str keys
RECURSIVE json_load(_)
json_load(doc) ==
    CASE doc.js = "string" -> PyStr(doc.text)
      [] doc.js = "number" -> [py |-> "int", text |-> doc.text, elems |-> <<>>]
      [] doc.js = "array" ->
             PyList([i \in 1..Len(doc.elems) |-> json_load(doc.elems[i])])
      [] OTHER ->
             PyDict([i \in 1..Len(doc.elems) |-> json_load(doc.elems[i])])

\* repr of a word or a number inside a container
repr(x) ==
    IF x.py = "str" THEN <<"'">> \o x.text[1] \o <<"'">> ELSE x.text[1]

Brackets(py) ==
    CASE py = "list" -> <<"[", "]">>
      [] py = "tuple" -> <<"(", ")">>
      [] OTHER -> <<"{", "}">>

\* str(item.content).split(): the words of a str; for a container of words
\* and numbers, one token for each element, brackets, quotes, commas and
\* colons included
str_split(content) ==
    LET n == Len(content.elems)
        open(i) == IF i = 1 THEN <<Brackets(content.py)[1]>> ELSE <<>>
        close(i) ==
            IF content.py = "dict" /\ i % 2 = 1 THEN <<":">>
            ELSE IF i < n THEN <<",">>
            ELSE IF content.py = "tuple" /\ n = 1
                 THEN <<",", Brackets(content.py)[2]>>
                 ELSE <<Brackets(content.py)[2]>>
    IN  IF content.py \in {"str", "int"} THEN content.text
        ELSE IF n = 0 THEN <<Brackets(content.py)>>
        ELSE [i \in 1..n |-> open(i) \o repr(content.elems[i]) \o close(i)]

\* set(text.lower().split())
keywords(words) == {LowerStr(words[i]) : i \in 1..Len(words)}

\* hashlib.md5(f"{time.time()}{context_type}{content}").hexdigest()[:8]
item_id(time, context_type, content) == <<time, context_type, content>>

\* ContextItem(id, content, type, timestamp, relevance_score=0.0,
\* embeddings=None)
SessionContextItem(id, content, type, timestamp, relevance_score) ==
    [id |-> id, content |-> content, type |-> type, timestamp |-> timestamp,
     relevance_score |-> relevance_score, embeddings |-> "None"]

to_dict_without_score(item) ==
    [id |-> item.id, content |-> item.content, type |-> item.type,
     timestamp |-> item.timestamp]

\* ContextItem.to_dict
to_dict(item) ==
    [id |-> item.id, content |-> item.content, type |-> item.type,
     timestamp |-> item.timestamp, relevance_score |-> item.relevance_score]

\* ContextItem(**item_data)
from_dict(item_data) ==
    SessionContextItem(item_data.id, item_data.content, item_data.type,
                       item_data.timestamp,
                       IF "relevance_score" \in DOMAIN item_data
                       THEN item_data.relevance_score ELSE 0)

\* ContextItem(**item_data) returns an item and raises no TypeError:
\* item_data has a key for every field without a default and no key that
\* is not a field
rebuildable(item_data) ==
    /\ {"id", "content", "type", "timestamp"} \subseteq DOMAIN item_data
    /\ DOMAIN item_data \subseteq
           {"id", "content", "type", "timestamp", "relevance_score",
            "embeddings"}

\* relevance scores are kept as multiples of 1 / (10 * SecondsPerDay *
\* JaccardScale); JaccardScale is a multiple of every size a union of
\* keywords has here
JaccardScale == 60
SecondsPerDay == 24 * 3600

Max(a, b) == IF a >= b THEN a ELSE b

\* the score score_batch writes to an item (lines 52-69)
relevance(item, current_query, time) ==
    LET query_keywords == keywords(current_query)
        content_keywords == keywords(str_split(item.content))
        intersection == query_keywords \cap content_keywords
        union == query_keywords \cup content_keywords
        jaccard == IF union # {}
                   THEN (Cardinality(intersection) * JaccardScale)
                            \div Cardinality(union)
                   ELSE 0
        recency_boost == Max(0, SecondsPerDay - (time - item.timestamp))
    IN  (jaccard * SecondsPerDay * 7) + (recency_boost * JaccardScale * 3)

RECURSIVE insert_ascending(_, _)
insert_ascending(x, s) ==
    IF s = <<>> THEN <<x>>
    ELSE IF Head(s).relevance_score <= x.relevance_score
         THEN <<Head(s)>> \o insert_ascending(x, Tail(s))
         ELSE <<x>> \o s

\* an item takes its place behind the items that score as much or more
RECURSIVE insert_descending(_, _)
insert_descending(x, s) ==
    IF s = <<>> THEN <<x>>
    ELSE IF Head(s).relevance_score >= x.relevance_score
         THEN <<Head(s)>> \o insert_descending(x, Tail(s))
         ELSE <<x>> \o s

RECURSIVE sorted_ascending(_)
sorted_ascending(items) ==
    IF items = <<>> THEN <<>>
    ELSE insert_ascending(items[Len(items)],
                          sorted_ascending(SubSeq(items, 1, Len(items) - 1)))

\* sorted(items, key=lambda x: x.relevance_score, reverse=True): stable
RECURSIVE sorted_reverse(_)
sorted_reverse(items) ==
    IF items = <<>> THEN <<>>
    ELSE insert_descending(items[Len(items)],
                           sorted_reverse(SubSeq(items, 1, Len(items) - 1)))

CheckpointNames == {"test_session"}

\* fork_session has not been called
NoFork == [forked |-> FALSE, context_items |-> <<>>, shared |-> {}]

\* the last operation was not restore_checkpoint
NoRestore == [name |-> "", returned |-> "none"]

\* no checkpoint file of that name
NoCheckpoint == [exists |-> FALSE, valid |-> FALSE, context_items |-> <<>>]

\* SessionStateManager.add_context
AddContext(content, context_type) ==
    /\ context_adds < MaxItems
    /\ context_adds' = context_adds + 1
    /\ context_items' =
           Append(context_items,
                  SessionContextItem(item_id(now, context_type, content),
                                     content, context_type, now, 0))
    /\ restored' = ""
    /\ scored' = <<>>
    /\ restore_call' = NoRestore
    /\ UNCHANGED <<checkpoint_file, saved, fork>>

\* the items of a list after the loop of score_batch (lines 51-69)
rescored(items, current_query, time) ==
    [i \in 1..Len(items) |->
        [items[i] EXCEPT !.relevance_score =
             relevance(items[i], current_query, time)]]

\* the list of the forked session after the items of self were written to:
\* an item both lists hold is one object.  written[i] is item i of self.
seen_by_fork(written) ==
    [j \in 1..Len(fork.context_items) |->
        IF \E i \in 1..Len(written) : <<i, j>> \in fork.shared
        THEN written[CHOOSE i \in 1..Len(written) : <<i, j>> \in fork.shared]
        ELSE fork.context_items[j]]

\* the list of self after the items of the forked session were written to
seen_by_self(written) ==
    [i \in 1..Len(context_items) |->
        IF \E j \in 1..Len(written) : <<i, j>> \in fork.shared
        THEN written[CHOOSE j \in 1..Len(written) : <<i, j>> \in fork.shared]
        ELSE context_items[i]]

\* RelevanceScorer.score_batch(session_manager.context_items, query)
\* (agent.py 307): the scores are written to the items of the list
ScoreBatch(current_query) ==
    /\ context_items' = rescored(context_items, current_query, now)
    /\ scored' = sorted_reverse(context_items')
    /\ restored' = ""
    /\ restore_call' = NoRestore
    /\ fork' = [fork EXCEPT !.context_items = seen_by_fork(context_items')]
    /\ UNCHANGED <<checkpoint_file, saved, context_adds>>

\* the items with the places they have in their list
with_places(items) ==
    [i \in 1..Len(items) |->
        [relevance_score |-> items[i].relevance_score, place |-> i]]

\* scored_items[:keep_top_n] as places of the list score_batch was given
kept_places(items, keep_top_n) ==
    LET order == sorted_reverse(with_places(items))
    IN  [k \in 1..(IF keep_top_n < Len(items) THEN keep_top_n ELSE Len(items))
            |-> order[k].place]

\* SessionStateManager.prune_by_relevance on self
PruneByRelevance(current_query, keep_top_n) ==
    \E written \in {rescored(context_items, current_query, now)} :
    \E kept \in {kept_places(written, keep_top_n)} :
        /\ context_items' = [k \in 1..Len(kept) |-> written[kept[k]]]
        /\ fork' = [fork EXCEPT
               !.context_items = seen_by_fork(written),
               !.shared = {<<k, j>> \in (1..Len(kept)) \X
                                         (1..Len(fork.context_items)) :
                              <<kept[k], j>> \in fork.shared}]
        /\ restored' = ""
        /\ scored' = <<>>
        /\ restore_call' = NoRestore
        /\ UNCHANGED <<checkpoint_file, saved, context_adds>>

\* SessionStateManager.fork_session: the new session's list is a copy of the
\* list, its items are the items of self
ForkSession ==
    /\ fork' = [forked |-> TRUE, context_items |-> context_items,
                shared |-> {<<i, i>> : i \in 1..Len(context_items)}]
    /\ restored' = ""
    /\ scored' = <<>>
    /\ restore_call' = NoRestore
    /\ UNCHANGED <<context_items, checkpoint_file, saved, context_adds>>

\* add_context on the session fork_session returned
ForkAddContext(content, context_type) ==
    /\ fork.forked
    /\ context_adds < MaxItems
    /\ context_adds' = context_adds + 1
    /\ fork' = [fork EXCEPT !.context_items =
                   Append(@, SessionContextItem(
                                 item_id(now, context_type, content),
                                 content, context_type, now, 0))]
    /\ restored' = ""
    /\ scored' = <<>>
    /\ restore_call' = NoRestore
    /\ UNCHANGED <<context_items, checkpoint_file, saved>>

\* prune_by_relevance on the session fork_session returned
ForkPruneByRelevance(current_query, keep_top_n) ==
    \E written \in {rescored(fork.context_items, current_query, now)} :
    \E kept \in {kept_places(written, keep_top_n)} :
        /\ fork.forked
        /\ context_items' = seen_by_self(written)
        /\ fork' = [fork EXCEPT
               !.context_items = [k \in 1..Len(kept) |-> written[kept[k]]],
               !.shared = {<<i, k>> \in (1..Len(context_items)) \X
                                         (1..Len(kept)) :
                              <<i, kept[k]>> \in fork.shared}]
        /\ restored' = ""
        /\ scored' = <<>>
        /\ restore_call' = NoRestore
        /\ UNCHANGED <<checkpoint_file, saved, context_adds>>

\* SessionStateManager.save_checkpoint: json.dump raises on a content it
\* cannot encode and leaves the file it opened for writing cut short
SaveCheckpoint(name) ==
    LET dicts == [i \in 1..Len(context_items) |-> to_dict(context_items[i])]
        ok == \A i \in 1..Len(dicts) : serialisable(dicts[i].content)
    IN  /\ checkpoint_file' =
               [checkpoint_file EXCEPT ![name] =
                   IF ok
                   THEN [exists |-> TRUE, valid |-> TRUE,
                         context_items |->
                             [i \in 1..Len(dicts) |->
                                 [dicts[i] EXCEPT
                                     !.content = json_dump(dicts[i].content)]]]
                   ELSE [exists |-> TRUE, valid |-> FALSE,
                         context_items |-> <<>>]]
        /\ saved' = IF ok THEN [saved EXCEPT ![name] = context_items]
                    ELSE saved
        /\ restored' = ""
        /\ scored' = <<>>
        /\ restore_call' = NoRestore
        /\ UNCHANGED <<context_items, context_adds, fork>>

\* json.load and the list comprehension of restore_checkpoint run to the
\* end (lines 167-174)
restorable(file) ==
    /\ file.exists /\ file.valid
    /\ \A i \in 1..Len(file.context_items) : rebuildable(file.context_items[i])

\* the items the list comprehension has built when it ends or raises
RECURSIVE rebuilt_items(_, _)
rebuilt_items(dicts, i) ==
    IF i > Len(dicts) \/ ~rebuildable(dicts[i]) THEN <<>>
    ELSE <<from_dict([dicts[i] EXCEPT !.content = json_load(dicts[i].content)])>>
             \o rebuilt_items(dicts, i + 1)

restored_items_as_built(file, current) ==
    IF file.exists /\ file.valid THEN rebuilt_items(file.context_items, 1)
    ELSE current

\* self.context_items after restore_checkpoint: the assignment of line 171
\* takes place when the comprehension has ended
restored_items(file, current) ==
    IF restorable(file) THEN rebuilt_items(file.context_items, 1)
    ELSE current

\* SessionStateManager.restore_checkpoint
RestoreCheckpoint(name) ==
    LET file == checkpoint_file[name]
        ok == restorable(file)
    IN  /\ context_items' = restored_items(file, context_items)
        /\ restored' = IF ok THEN name ELSE ""
        /\ restore_call' =
               [name |-> name, returned |-> IF ok THEN "True" ELSE "False"]
        /\ scored' = <<>>
        /\ fork' = IF ok THEN [fork EXCEPT !.shared = {}] ELSE fork
        /\ UNCHANGED <<checkpoint_file, saved, context_adds>>

\* the owner of the session empties its list: a new SessionStateManager
\* for the same session id starts with context_items = []
EmptyItems ==
    /\ context_items # <<>>
    /\ context_items' = <<>>
    /\ restored' = ""
    /\ scored' = <<>>
    /\ restore_call' = NoRestore
    /\ fork' = [fork EXCEPT !.shared = {}]
    /\ UNCHANGED <<checkpoint_file, saved, context_adds>>

InitSession ==
    /\ context_items = <<>>
    /\ checkpoint_file = [name \in CheckpointNames |-> NoCheckpoint]
    /\ saved = [name \in CheckpointNames |-> <<>>]
    /\ scored = <<>>
    /\ restored = ""
    /\ context_adds = 0
    /\ restore_call = NoRestore
    /\ fork = NoFork

InitMemory ==
    /\ memory = <<>>
    /\ memory_file = NoFile
    /\ seen = <<>>
    /\ retrieved = <<>>
    /\ retrievals = 0

\* no chain has been detected
NoChain == [tool_nodes |-> <<>>, ordered |-> FALSE]

InitBatch ==
    /\ batches = <<>> /\ batch_ops = <<>> /\ chain = NoChain
    /\ batch_results = EmptyMap

InitRest == InitMemory /\ InitPolicy /\ InitSession /\ InitBatch

InitClient ==
    /\ cancelled = FALSE
    /\ cache = EmptyMap
    /\ failure_count = EmptyMap
    /\ circuit_open_until = EmptyMap
    /\ context_buffer = <<>>
    /\ now = 0
    /\ op = IdleOp
    /\ opened_at = EmptyMap
    /\ fresh_failures = EmptyMap
    /\ prev = Summary(IdleOp)
    /\ calls = 0
    /\ added = 0

NoStream == <<>>

InitSpecClient ==
    InitClient /\ stream = NoStream /\ InitPlanner /\ InitAgent /\ InitRest

NextClient ==
    \/ DriverCall /\ UNCHANGED <<streamVars, plannerVars, agentVars, restVars>>
    \/ \E out \in TransportOutcomes :
           ResourceRespond(out) /\ UNCHANGED <<streamVars, plannerVars, agentVars, restVars>>
    \/ \E out \in TransportOutcomes :
           ToolRespond(out) /\ UNCHANGED <<streamVars, plannerVars, agentVars, restVars>>
    \/ \E out \in TransportOutcomes, llm \in LlmOutcomes :
           PromptRespond(out, llm) /\ UNCHANGED <<streamVars, plannerVars, agentVars, restVars>>
    \/ Cancel /\ UNCHANGED <<streamVars, plannerVars, agentVars, restVars>>
    \/ Tick /\ UNCHANGED <<streamVars, plannerVars, agentVars, restVars>>

SpecClient == InitSpecClient /\ [][NextClient]_vars

-----------------------------------------------------------------------------
(* C5: no read_resource, call_tool or get_prompt operation sends more than  *)
(* MAX_RETRIES + 1 requests to the transport.                               *)
C5_RetryBound == op.transports <= MAX_RETRIES + 1

\* an operation that used all its attempts and gave up
C5_Witness ==
    /\ op.pc = "done" /\ op.status = "raised"
    /\ op.error \in {"ToolExecutionError", "ResourceReadError"}
    /\ op.transports = MAX_RETRIES + 1

-----------------------------------------------------------------------------
(* C16: once cancel() has been called the flag stays set, and every call   *)
(* of read_resource, call_tool or get_prompt made after it ends at once    *)
(* with the cancellation error: nothing is sent to the transport and the   *)
(* cache, the failure counts and the context buffer are left as they were. *)
C16_Step ==
    /\ cancelled => cancelled'
    /\ (cancelled /\ calls' = calls + 1) =>
           /\ op'.pc = "done" /\ op'.status = "raised"
           /\ op'.error = "RuntimeError"
           /\ op'.transports = 0
           /\ cache' = cache
           /\ failure_count' = failure_count
           /\ context_buffer' = context_buffer

C16_CancelledStaysCancelled == [][C16_Step]_vars

\* a read_resource made after cancel() has raised the cancellation error
\* although its answer was in the cache
C16_Witness ==
    /\ cancelled
    /\ op.pc = "done" /\ op.kind = "resource"
    /\ op.status = "raised" /\ op.error = "RuntimeError"
    /\ op.transports = 0
    /\ Truthy(get_cached(op.key))

-----------------------------------------------------------------------------
(* C3: read_resource raises PermissionError, with no cache lookup and no   *)
(* transport activity, for every URI that is neither listed in the         *)
(* allow-set of the server nor a file:// URI matching a configured         *)
(* pattern.  (A cancelled client raises the cancellation error first.)     *)
MatchesFilePattern(uri) ==
    /\ StartsWith(uri, <<"file://">>)
    /\ \E p \in FILE_RESOURCE_PATTERNS : StartsWith(uri, p)

C3_UnlistedResourceRefused ==
    ( /\ op.kind = "resource"
      /\ ~(op.status = "raised" /\ op.error = "RuntimeError")
      /\ op.name \notin AllowedFor(ALLOWED_RESOURCES, op.server)
      /\ ~MatchesFilePattern(op.name) )
    => ( /\ op.status = "raised"
         /\ op.error = "PermissionError"
         /\ op.transports = 0 )

-----------------------------------------------------------------------------
(* C4: when a call on a key is entered after FAILURE_THRESHOLD or more     *)
(* consecutive failures on that key, it is refused with the breaker-open   *)
(* error and sends nothing to the transport as long as the cooldown since  *)
(* the key's last circuit_opened event has not elapsed, and it goes to the *)
(* transport once CIRCUIT_BREAKER_COOLDOWN has elapsed.                    *)
C4_Entered ==
    /\ calls' = calls + 1
    /\ op'.kind \in {"tool", "resource"}
    /\ ~cancelled
    /\ GetOr(failure_count, op'.key, 0) >= FAILURE_THRESHOLD

C4_Step ==
    C4_Entered =>
        IF now < opened_at[op'.key] + CIRCUIT_BREAKER_COOLDOWN
        THEN /\ op'.status = "raised"
             /\ op'.error = "ResourceReadError"
             /\ op'.blocked
             /\ op'.transports = 0
        ELSE /\ op'.pc = "awaiting"
             /\ op'.transports = 1

C4_CircuitBlocksThenReopens == [][C4_Step]_vars

\* a call went to the transport again on a key whose circuit had opened
C4_Witness ==
    /\ op.pc = "awaiting" /\ op.attempt = 0
    /\ GetOr(failure_count, op.key, 0) >= FAILURE_THRESHOLD
    /\ now >= opened_at[op.key] + CIRCUIT_BREAKER_COOLDOWN
    /\ prev.key = op.key /\ prev.status = "raised"

\* a call refused by the open circuit
C4_WitnessBlocked ==
    /\ op.blocked /\ op.transports = 0
    /\ GetOr(failure_count, op.key, 0) >= FAILURE_THRESHOLD

-----------------------------------------------------------------------------
(* C6: when a call_tool has returned and the next client call is a         *)
(* call_tool with the same canonical arguments (the client has no cache    *)
(* invalidation, and the client is not cancelled), the second call         *)
(* returns the value of the first and sends nothing to the transport.      *)
C6_CacheIdempotent ==
    ( /\ op.kind = "tool" /\ prev.kind = "tool"
      /\ prev.key = op.key
      /\ prev.status = "returned"
      /\ ~(op.status = "raised" /\ op.error = "RuntimeError") )
    => ( /\ op.transports = 0
         /\ op.status = "returned"
         /\ op.value = prev.value )

\* the same, for the truthy responses only
C6_TruthyOnly ==
    ( /\ op.kind = "tool" /\ prev.kind = "tool"
      /\ prev.key = op.key
      /\ prev.status = "returned" /\ Truthy(prev.value)
      /\ ~(op.status = "raised" /\ op.error = "RuntimeError") )
    => ( /\ op.transports = 0
         /\ op.status = "returned"
         /\ op.value = prev.value )

-----------------------------------------------------------------------------
\* the step sends a request to the transport: the first attempt of a call
\* that enters, or the next attempt of the call in flight
TransportInvoked ==
    /\ op'.pc = "awaiting"
    /\ (op.pc # "awaiting" \/ op'.attempt # op.attempt)

\* the circuit of key is open in the state the step leads to
CircuitOpenAfter(key) ==
    /\ key \in DOMAIN circuit_open_until'
    /\ circuit_open_until'[key] # 0
    /\ now' < circuit_open_until'[key]

(* C23: while the circuit of a key is open no request for that key goes to *)
(* the transport, be it the first attempt of a new call or a later attempt *)
(* of the call during which the circuit opened.                            *)
C23_Step == TransportInvoked => ~CircuitOpenAfter(op'.key)

C23_OpenCircuitSendsNothing == [][C23_Step]_vars

\* the call in flight gives up in this step, its attempts used up
Exhausts ==
    /\ op.pc = "awaiting" /\ op'.pc = "done" /\ op'.status = "raised"
    /\ op'.error \in {"ToolExecutionError", "ResourceReadError"}
    /\ op.attempt = MAX_RETRIES

(* C24: the failure counter of a key grows only in a step in which a call  *)
(* on the key exhausts its retries, and then by one; the circuit of a key  *)
(* opens only when its counter, the number of such exhaustions, has        *)
(* reached FAILURE_THRESHOLD.                                              *)
C24_Step ==
    \A key \in DOMAIN failure_count' :
        /\ failure_count'[key] > GetOr(failure_count, key, 0) =>
               /\ failure_count'[key] = GetOr(failure_count, key, 0) + 1
               /\ Exhausts /\ op.key = key
        /\ (CircuitOpenAfter(key) /\ ~circuit_is_open(key)) =>
               failure_count'[key] >= FAILURE_THRESHOLD

C24_CounterCountsExhaustions == [][C24_Step]_vars

\* the circuit of key had been opened and its cooldown is over
circuit_expired(key) ==
    /\ key \in DOMAIN circuit_open_until
    /\ circuit_open_until[key] # 0
    /\ now >= circuit_open_until[key]

(* C25: when the circuit of a key opens again after its cooldown expired,  *)
(* FAILURE_THRESHOLD or more attempts on the key have failed since the     *)
(* expiry; and a call that returns a response leaves the counter of its    *)
(* key at zero and its circuit closed.                                     *)
C25_Step ==
    /\ \A key \in DOMAIN circuit_open_until :
           (circuit_expired(key) /\ CircuitOpenAfter(key)) =>
               fresh_failures'[key] >= FAILURE_THRESHOLD
    /\ (op' # op /\ op'.pc = "done" /\ op'.status = "returned") =>
           /\ GetOr(failure_count', op'.key, 0) = 0
           /\ ~CircuitOpenAfter(op'.key)

C25_ExpiredCircuitStartsAfresh == [][C25_Step]_vars

\* a response of the tool server that reports a failure in-band
InBandFailure(raw) == raw.shape = "map" /\ ~raw.empty /\ ~raw.success

(* C26: after a read_resource or call_tool whose transport raised, or      *)
(* whose response carries success = false, the cache has no entry for the  *)
(* key of the call; and no response that carries success = false is        *)
(* served from the cache.                                                  *)
C26_CacheHoldsSuccessesOnly ==
    (op.pc = "done" /\ op.kind \in {"tool", "resource"}) =>
        /\ ( /\ op.transports > 0
             /\ \/ op.status = "raised"
                \/ op.status = "returned" /\ InBandFailure(op.value) )
           => op.key \notin DOMAIN cache
        /\ (op.status = "returned" /\ op.transports = 0) =>
               ~InBandFailure(op.value)

(* C28: once cancel() has been called, a read_resource or call_tool in     *)
(* flight sends nothing more to the transport: when its attempt fails the  *)
(* operation ends, with the cancellation error.                            *)
C28_Step ==
    (cancelled /\ op.pc = "awaiting" /\ op.kind \in {"tool", "resource"}) =>
        /\ ~TransportInvoked
        /\ (op'.pc = "done" /\ op'.attempt_error = "Exception") =>
               op'.status = "raised" /\ op'.error = "RuntimeError"

C28_CancelledCallDoesNotRetry == [][C28_Step]_vars

(* C30: a read_resource or call_tool whose attempt raised PermissionError  *)
(* or TimeoutError has ended with that error: the attempt was the last.    *)
C30_NotRetried ==
    ( /\ op.kind \in {"tool", "resource"}
      /\ op.attempt_error \in {"PermissionError", "TimeoutError"} )
    => ( /\ op.pc = "done" /\ op.status = "raised"
         /\ op.error = op.attempt_error )

-----------------------------------------------------------------------------
(* SpecContext: _add_to_context called over and over.  The items passed    *)
(* are those of a periodic stream chosen at the start, so that the item of *)
(* every call is known from its number.                                    *)

ContextItems ==
    {ContextItem("resource", UriCwd, RawOk),
     ContextItem("tool", <<"search_files">>, RawEmpty),
     ContextItem("prompt", <<"terminal_system_prompt">>, LlmText)}

Streams ==
    {<<a>> : a \in ContextItems} \cup {<<a, b>> : a, b \in ContextItems}

StreamItem(st, i) == st[((i - 1) % Len(st)) + 1]

AddToContext ==
    /\ added < MaxAdds
    /\ context_buffer' =
           add_to_context(context_buffer, StreamItem(stream, added + 1))
    /\ added' = added + 1
    /\ UNCHANGED <<cancelled, cache, failure_count, circuit_open_until, now,
                   op, opened_at, fresh_failures, prev, calls, stream,
                   plannerVars, agentVars, restVars>>

InitSpecContext ==
    InitClient /\ stream \in Streams /\ InitPlanner /\ InitAgent /\ InitRest

NextContext == AddToContext

SpecContext == InitSpecContext /\ [][NextContext]_vars

(* C7: after any number of _add_to_context calls the buffer holds at most   *)
(* MAX_CONTEXT_ITEMS items, and they are the items added last, in the      *)
(* order they were added.                                                  *)
C7_ContextBufferFifo ==
    LET n == IF added < MAX_CONTEXT_ITEMS THEN added ELSE MAX_CONTEXT_ITEMS
    IN  /\ Len(context_buffer) <= MAX_CONTEXT_ITEMS
        /\ context_buffer =
               [i \in 1..n |-> StreamItem(stream, added - n + i)]

\* the buffer is full and has evicted items of a stream of unlike items
C7_Witness ==
    /\ added > MAX_CONTEXT_ITEMS + 1
    /\ Len(context_buffer) = MAX_CONTEXT_ITEMS
    /\ Len(stream) = 2 /\ stream[1] # stream[2]

-----------------------------------------------------------------------------
(* SpecPlanner: decompose_task called with any response of the LLM oracle. *)

IdPool == <<"task_1", "task_2", "task_3", "task_4">>

\* dependency lists of up to two entries, repeats and unknown ids included
DependencyLists ==
    LET targets == {IdPool[i] : i \in 1..MaxTasks} \cup {"task_0"}
    IN  {<<>>} \cup {<<a>> : a \in targets}
               \cup {<<a, b>> : a, b \in targets}

PlannedTools == {<<"read_file">>, <<"format_disk">>}

\* the subtask list the LLM writes: the i-th task is named IdPool[i] (ids
\* are unique within a plan), f gives its tool and its dependencies
SubtaskList(n, f) ==
    [i \in 1..n |-> SubTask(IdPool[i], f[i][1], Dict(<<>>), f[i][2])]

\* what the oracle does when it writes no plan that can be read: text that
\* does not parse, a failure of the call, subtasks without their fields
UnplannedResponses ==
    {Unparseable, OracleFails} \cup
    {MissingFields(SubtaskList(n, [i \in 1..n |-> <<<<"read_file">>, <<>>>>])) :
        n \in 0..MaxTasks}

\* answer() asks for one plan (agent.py:214)
DecomposeTask ==
    /\ task_plan = NoPlan
    /\ \/ \E response \in UnplannedResponses :
              /\ task_plan' = decompose_task(response)
              /\ oracle' = response
       \/ \E n \in 0..MaxTasks :
             \E f \in [1..n -> PlannedTools \X DependencyLists] :
                 /\ task_plan' = decompose_task(Parsed(SubtaskList(n, f)))
                 /\ oracle' = Parsed(SubtaskList(n, f))
    /\ UNCHANGED <<clientVars, streamVars, agentVars, restVars>>

InitSpecPlanner ==
    InitClient /\ stream = NoStream /\ InitPlanner /\ InitAgent /\ InitRest

NextPlanner == DecomposeTask

SpecPlanner == InitSpecPlanner /\ [][NextPlanner]_vars

(* C17: decompose_task returns a TaskPlan and never raises, whatever the   *)
(* oracle did: a well-formed plan, text that does not parse, subtasks      *)
(* without their required fields, a failure of the call itself; when no    *)
(* plan could be parsed the plan returned is the singleton fallback plan.  *)
C17_AlwaysAPlan ==
    task_plan # NoPlan =>
        /\ task_plan.returned /\ task_plan.raised = "none"
        /\ ~(oracle.parses /\ oracle.has_fields) =>
               task_plan.subtasks = FallbackSubtasks

\* the position of a task id in a list of ids, 0 if it is not there
IndexOf(id, order) ==
    IF InSeq(id, order) THEN CHOOSE i \in 1..Len(order) : order[i] = id ELSE 0

(* C9: in every returned plan with validation_errors == [], for every task *)
(* b and every task a named in b.dependencies, both a and b are in         *)
(* execution_order and a comes before b.                                   *)
C9_TopologicalSoundness ==
    (task_plan.returned /\ task_plan.validation_errors = <<>>) =>
        \A b \in 1..Len(task_plan.subtasks) :
            \A d \in 1..Len(task_plan.subtasks[b].dependencies) :
                LET a == task_plan.subtasks[b].dependencies[d]
                    ia == IndexOf(a, task_plan.execution_order)
                    ib == IndexOf(task_plan.subtasks[b].id,
                                  task_plan.execution_order)
                IN  get_task(task_plan.subtasks, a) # 0 =>
                        (ia # 0 /\ ib # 0 /\ ia < ib)

\* how often id occurs in the list of ids order
Occurrences(id, order) == Cardinality({i \in 1..Len(order) : order[i] = id})

(* C31: a returned plan without validation errors has every subtask id in  *)
(* execution_order exactly once: whenever compute_execution_order leaves a *)
(* subtask out, its in-degree never having reached zero, the plan is       *)
(* marked invalid.                                                         *)
C31_LeftOutMeansInvalid ==
    (task_plan.returned /\ task_plan.validation_errors = <<>>) =>
        \A i \in 1..Len(task_plan.subtasks) :
            Occurrences(task_plan.subtasks[i].id, task_plan.execution_order) = 1

DependencyEdges(subtasks) ==
    UNION {{<<subtasks[b].id, subtasks[b].dependencies[d]>> :
               d \in 1..Len(subtasks[b].dependencies)} :
           b \in 1..Len(subtasks)}

RECURSIVE TransitiveClosure(_)
TransitiveClosure(R) ==
    LET S == R \cup {<<p[1][1], p[2][2]>> :
                        p \in {q \in R \X R : q[1][2] = q[2][1]}}
    IN  IF S = R THEN R ELSE TransitiveClosure(S)

HasDirectedCycle(subtasks) ==
    \E e \in TransitiveClosure(DependencyEdges(subtasks)) : e[1] = e[2]

(* C10: no returned plan has both validation_errors == [] and a directed   *)
(* cycle in its dependency graph, a task depending on itself included.     *)
C10_Acyclicity ==
    (task_plan.returned /\ task_plan.validation_errors = <<>>) =>
        ~HasDirectedCycle(task_plan.subtasks)

\* a returned plan of two tasks that depend on each other, and on nothing
\* else: the cycle is its only validation error
C10_Witness ==
    /\ task_plan.returned
    /\ Len(task_plan.subtasks) = 2
    /\ task_plan.subtasks[1].dependencies = <<task_plan.subtasks[2].id>>
    /\ task_plan.subtasks[2].dependencies = <<task_plan.subtasks[1].id>>
    /\ HasDirectedCycle(task_plan.subtasks)
    /\ task_plan.validation_errors =
           << <<"Circular dependency detected in task plan">> >>

-----------------------------------------------------------------------------
(* SpecAgent: one answer() call of the agent over the client.  The clock   *)
(* stands still during the call, and the transport answers in the three    *)
(* ways answer() can tell apart: a success, a failure it reports, an       *)
(* exception.  What the clock and the other answers change inside the      *)
(* client is the subject of SpecClient.                                    *)

AgentTransportOutcomes ==
    {[type |-> "ok", raw |-> RawOk], [type |-> "ok", raw |-> RawFail],
     [type |-> "Exception", raw |-> NoRaw]}

InitSpecAgent ==
    InitClient /\ stream = NoStream /\ InitPlanner /\ InitAgent /\ InitRest

NextAgent ==
    \/ GatherCwd /\ UNCHANGED <<streamVars, restVars>>
    \/ GatherInfo /\ UNCHANGED <<streamVars, restVars>>
    \/ Plan /\ UNCHANGED <<streamVars, restVars>>
    \/ RunTask /\ UNCHANGED <<streamVars, restVars>>
    \/ Observe /\ UNCHANGED <<streamVars, restVars>>
    \/ Finish /\ UNCHANGED <<streamVars, policyVars, sessionVars, batchVars>>
    \/ \E out \in AgentTransportOutcomes :
           ResourceRespond(out) /\ UNCHANGED <<streamVars, plannerVars, agentVars, restVars>>
    \/ \E out \in AgentTransportOutcomes :
           ToolRespond(out) /\ UNCHANGED <<streamVars, plannerVars, agentVars, restVars>>
    \/ Cancel /\ UNCHANGED <<streamVars, plannerVars, agentVars, restVars>>

SpecAgent == InitSpecAgent /\ [][NextAgent]_vars

(* C1: every call of read_resource, call_tool or get_prompt is preceded by *)
(* exactly one policy evaluation whose payload matches the call, made      *)
(* before the call does anything on the transport.                         *)
C1_GateCoverage == op.pc # "idle" => gated = 1

(* C2: during answer(), no tool and arguments that the policy engine       *)
(* denies are passed to the transport, on the first dispatch of a subtask  *)
(* or on a retry dispatch of act_with_retry.                               *)
C2_NoDeniedDispatch ==
    (op.kind = "tool" /\ op.transports > 0) =>
        evaluate(policy_dry_run, "tool", op.name, op.arguments) # "deny"

C12_ExecutionOrder ==
    (a_pc \in {"tasks", "dispatch"} /\ idx <= Len(task_plan.subtasks)) =>
        /\ idx <= Len(task_plan.execution_order)
        /\ task_plan.subtasks[idx].id = task_plan.execution_order[idx]

\* the ids of the subtasks answer() has dispatched so far
DispatchedIds ==
    {execution_results[i].task_id : i \in 1..Len(execution_results)}
        \cup (IF a_pc = "dispatch" THEN {task_plan.subtasks[idx].id} ELSE {})

\* the ids that have a successful record in execution_results
SuccessfulIds ==
    {execution_results[i].task_id :
        i \in {j \in 1..Len(execution_results) : execution_results[j].success}}

(* C13: a subtask is dispatched only if every id in its dependencies has a *)
(* successful record in execution_results, and so has every id it depends  *)
(* on transitively: a subtask below a failed, skipped or never-run subtask *)
(* is never dispatched.                                                    *)
C13_DependencyGate ==
    \A e \in TransitiveClosure(DependencyEdges(task_plan.subtasks)) :
        e[1] \in DispatchedIds => e[2] \in SuccessfulIds

\* answer() has returned: a subtask was dispatched and failed, and the
\* subtask that depends on it has no record
C13_Witness ==
    /\ a_pc = "returned"
    /\ \E e \in DependencyEdges(task_plan.subtasks) :
           /\ e[2] \in DispatchedIds /\ e[2] \notin SuccessfulIds
           /\ e[1] \notin DispatchedIds

(* C14: when the policy engine denies a subtask, answer() skips it and     *)
(* goes on: it never ends with an exception while its loop stands at a     *)
(* subtask the policy denies.                                              *)
C14_DenialSkips ==
    (/\ idx \in 1..Len(task_plan.subtasks)
     /\ evaluate(policy_dry_run, "tool", task_plan.subtasks[idx].tool_name,
                 task_plan.subtasks[idx].arguments) = "deny")
        => a_pc # "raised"

(* C22: when the final synthesis call to the oracle fails, answer() still  *)
(* returns an answer, and the interaction is stored in memory: the failure *)
(* does not leave answer().                                                *)
C22_SynthesisFailureAnswered ==
    synthesis.type = "Exception" =>
        /\ a_pc = "returned"
        /\ memory # <<>>
        /\ memory_file = save(memory)

\* the client call answer() waits for has raised the cancellation error
CancellationRaised ==
    /\ a_pc \in {"cwd", "info", "dispatch"}
    /\ op.pc = "done" /\ op.status = "raised" /\ op.error = "RuntimeError"

(* C29: when a client operation raises the cancellation error inside       *)
(* answer(), the next step of answer() is to end with that error: it       *)
(* records no observation, asks for no reflection and makes no further     *)
(* client call.                                                            *)
C29_Step ==
    (CancellationRaised /\ (a_pc' # a_pc \/ exec' # exec \/ idx' # idx)) =>
        /\ a_pc' = "raised"
        /\ calls' = calls
        /\ execution_results' = execution_results

C29_CancellationEndsAnswer == [][C29_Step]_vars

-----------------------------------------------------------------------------
(* SpecRetry: one answer() call on a plan of one read-only tool, over a    *)
(* tool server that answers the first dispatch of act_with_retry with a    *)
(* failure it reports and every later dispatch with a success, and an LLM  *)
(* whose reflection on the failure suggests to try again.  Nobody cancels. *)

ArgsList == Dict(<< <<"path", <<".">>>> >>)

RetryPlanResponses ==
    {Parsed(<< SubTask("task_1", <<"search_files">>, ArgsSearch, <<>>) >>),
     Parsed(<< SubTask("task_1", <<"list_directory">>, ArgsList, <<>>) >>)}

\* suggested_actions of the reflection: nothing, the same tool with the same
\* arguments, or the same tool with another path
RetryReflections ==
    {Suggests(<<>>),
     Suggests(<<Suggestion(TRUE, exec.current_tool, TRUE, exec.current_args)>>),
     Suggests(<<Suggestion(TRUE, exec.current_tool, TRUE,
                           DictSet(exec.current_args, "path",
                                   <<"s", "r", "c">>))>>)}

\* the answer of the tool server to the request of the dispatch in flight
RetryServerAnswer ==
    [type |-> "ok", raw |-> IF exec.dispatches = 1 THEN RawFail ELSE RawOk]

NextRetry ==
    \/ GatherCwd /\ UNCHANGED <<streamVars, restVars>>
    \/ GatherInfo /\ UNCHANGED <<streamVars, restVars>>
    \/ PlanWith(RetryPlanResponses) /\ UNCHANGED <<streamVars, restVars>>
    \/ RunTask /\ UNCHANGED <<streamVars, restVars>>
    \/ ObserveWith(RetryReflections) /\ UNCHANGED <<streamVars, restVars>>
    \/ Finish /\ UNCHANGED <<streamVars, policyVars, sessionVars, batchVars>>
    \/ \E out \in AgentTransportOutcomes :
           ResourceRespond(out) /\ UNCHANGED <<streamVars, plannerVars, agentVars, restVars>>
    \/ ToolRespond(RetryServerAnswer)
           /\ UNCHANGED <<streamVars, plannerVars, agentVars, restVars>>

SpecRetry == InitSpecAgent /\ [][NextRetry]_vars

(* C27: when the first dispatch of a tool is answered with a failure the   *)
(* server reports and the reflection suggests a retry, with other          *)
(* arguments or with the same tool and the same arguments, the second      *)
(* dispatch reaches the tool server and succeeds: act_with_retry returns   *)
(* the successful result after exactly two observations.                   *)
C27_RetryReachesServer ==
    (exec.status = "returned" /\ exec.dispatches >= 2) =>
        /\ observe(exec.result)
        /\ exec.attempt = 2
        /\ op.transports = 1

-----------------------------------------------------------------------------
(* SpecReflect: one answer() call on a plan of one read-only tool, over a  *)
(* tool server whose answers are successes, failures it reports and        *)
(* exceptions, and an LLM whose answers to the prompt of reflect() are a   *)
(* retry with another path, no suggestion, a text that is not JSON, a JSON *)
(* text whose reflection_type is none of ReflectionType, and an error of   *)
(* the LLM itself.  Nobody cancels.                                        *)

ReflectResponses ==
    {Suggests(<<>>),
     Suggests(<<Suggestion(TRUE, exec.current_tool, TRUE,
                           DictSet(exec.current_args, "path",
                                   <<"s", "r", "c">>))>>),
     ReflectionResponse("ok", FALSE, FALSE, <<>>),
     ReflectionResponse("ok", TRUE, FALSE,
                        <<Suggestion(TRUE, exec.current_tool, TRUE,
                                     exec.current_args)>>),
     ReflectionResponse("Exception", FALSE, FALSE, <<>>)}

NextReflect ==
    \/ GatherCwd /\ UNCHANGED <<streamVars, restVars>>
    \/ GatherInfo /\ UNCHANGED <<streamVars, restVars>>
    \/ PlanWith(RetryPlanResponses) /\ UNCHANGED <<streamVars, restVars>>
    \/ RunTask /\ UNCHANGED <<streamVars, restVars>>
    \/ ObserveWith(ReflectResponses) /\ UNCHANGED <<streamVars, restVars>>
    \/ Finish /\ UNCHANGED <<streamVars, policyVars, sessionVars, batchVars>>
    \/ \E out \in AgentTransportOutcomes :
           ResourceRespond(out) /\ UNCHANGED <<streamVars, plannerVars, agentVars, restVars>>
    \/ \E out \in AgentTransportOutcomes :
           ToolRespond(out) /\ UNCHANGED <<streamVars, plannerVars, agentVars, restVars>>

SpecReflect == InitSpecAgent /\ [][NextReflect]_vars

\* act_with_retry has the outcome of its dispatch in hand
Observing == a_pc = "dispatch" /\ op.pc = "done"

\* the step makes a reflection
Reflects == exec'.reflections > exec.reflections

\* the step sends nothing to the client
NoDispatch == exec'.dispatches = exec.dispatches /\ op' = op

(* C37: in act_with_retry a reflection is made only after a failed         *)
(* observation with attempts remaining; when the reflection has no         *)
(* suggested action or the LLM's reflection cannot be parsed, the loop     *)
(* ends with no further dispatch and returns the last failed result; after *)
(* a successful observation there is no reflection and no dispatch.        *)
C37_Step ==
    /\ Reflects =>
           /\ Observing
           /\ ~observe(observed_result)
           /\ attempts_left(exec.attempt)
           /\ exec'.reflections = exec.reflections + 1
    /\ (Reflects /\ exec'.reflection \in {"empty", "unparseable"}) =>
           /\ exec'.status = "returned"
           /\ exec'.result = observed_result
           /\ ~observe(exec'.result)
           /\ NoDispatch
    /\ (Observing /\ observe(observed_result) /\ exec' # exec) =>
           /\ exec'.status = "returned"
           /\ exec'.result = observed_result
           /\ ~Reflects
           /\ NoDispatch

C37_ReflectionEndsLoop == [][C37_Step]_vars

\* act_with_retry has returned the failure of its second dispatch after a
\* reflection that suggested the retry and one that could not be parsed
C37_Witness ==
    /\ exec.status = "returned"
    /\ exec.dispatches = 2
    /\ exec.reflections = 2
    /\ exec.reflection = "unparseable"
    /\ ~observe(exec.result)

-----------------------------------------------------------------------------
(* SpecAgentDryRun: one answer() call of an agent whose policy engine is   *)
(* in dry-run mode, PolicyEngine(dry_run=True) (policy.py 21-22): the      *)
(* decisions of evaluate() for mutating tools are dry_run and answer()     *)
(* takes the branch of _gate_tool that returns False.                      *)

InitSpecAgentDryRun ==
    /\ InitClient /\ stream = NoStream /\ InitPlanner /\ InitAgent
    /\ InitMemory /\ InitSession /\ InitBatch
    /\ policy_dry_run = TRUE /\ payload = NoPayload /\ decided = "none"

SpecAgentDryRun == InitSpecAgentDryRun /\ [][NextAgent]_vars

(* C15: when the policy decision for the subtask answer() stands at is     *)
(* dry_run, the step answer() takes makes no client call and leaves a      *)
(* successful record of the subtask in execution_results, the record that  *)
(* lets the subtasks depending on it run.                                  *)
C15_Step ==
    (/\ a_pc = "tasks" /\ idx \in 1..Len(task_plan.subtasks)
     /\ \A d \in 1..Len(task_plan.subtasks[idx].dependencies) :
            task_plan.subtasks[idx].dependencies[d] \in SuccessfulIds
     /\ evaluate(policy_dry_run, "tool", task_plan.subtasks[idx].tool_name,
                 task_plan.subtasks[idx].arguments) = "dry_run"
     /\ (idx' # idx \/ a_pc' # a_pc))
        => /\ calls' = calls
           /\ \E i \in 1..Len(execution_results') :
                  /\ execution_results'[i].task_id = task_plan.subtasks[idx].id
                  /\ execution_results'[i].success

C15_DryRunSimulated == [][C15_Step]_vars

-----------------------------------------------------------------------------
(* SpecPolicy: PolicyEngine.evaluate("tool", payload) called once on a     *)
(* command tool with any command text, by an engine built in normal or in  *)
(* dry-run mode.  The texts are the blocklist entries as written and in capitals,  *)
(* alone or inside a longer command, and two harmless commands.            *)

Upper(c) ==
    IF \E i \in 1..Len(LowerCase) : LowerCase[i] = c
    THEN UpperCase[CHOOSE i \in 1..Len(LowerCase) : LowerCase[i] = c]
    ELSE c

UpperStr(s) == [i \in 1..Len(s) |-> Upper(s[i])]

PolicyCommands ==
    LET entries == blocked_commands \cup dangerous_patterns
        bodies == entries \cup {UpperStr(e) : e \in entries}
                      \cup {<<"l", "s">>, <<"e", "c", "h", "o">>}
        before == {<<>>, <<"s", "u", "d", "o", " ">>}
        after == {<<>>, <<" ", "x">>}
    IN  {a \o b \o c : a \in before, b \in bodies, c \in after}

PolicyTools == {<<"run_command">>, <<"interactive_command">>, <<"read_file">>}

\* decision = self.policy.evaluate("tool", payload)
Evaluate ==
    /\ decided = "none"
    /\ decided' = evaluate(policy_dry_run, "tool", payload.name,
                           payload.arguments)
    /\ UNCHANGED <<policy_dry_run, payload>>

InitSpecPolicy ==
    /\ InitClient /\ stream = NoStream /\ InitPlanner /\ InitAgent
    /\ InitMemory /\ InitSession /\ InitBatch
    /\ policy_dry_run \in BOOLEAN
    /\ \E name \in PolicyTools, command \in PolicyCommands :
           payload = [name |-> name,
                      arguments |-> Dict(<< <<"command", command>> >>)]
    /\ decided = "none"

NextPolicy ==
    Evaluate /\ UNCHANGED <<clientVars, streamVars, plannerVars, agentVars,
                            memoryVars, sessionVars, batchVars>>

SpecPolicy == InitSpecPolicy /\ [][NextPolicy]_vars

(* C18: for run_command and interactive_command, evaluate returns deny     *)
(* whenever the command text contains an entry of blocked_commands or of   *)
(* dangerous_patterns, in dry-run mode and in normal mode alike.           *)
C18_BlocklistDenies ==
    (/\ decided # "none"
     /\ payload.name \in {<<"run_command">>, <<"interactive_command">>}
     /\ \E entry \in blocked_commands \cup dangerous_patterns :
            Contains(ArgGet(payload.arguments, "command", <<>>), entry))
        => decided = "deny"

-----------------------------------------------------------------------------
(* SpecSession: the operations of a session's SessionStateManager and the  *)
(* scoring of its items, in any order, the clock moving between them.      *)

Word_list == <<"l", "i", "s", "t">>
Word_files == <<"f", "i", "l", "e", "s">>
Word_Files == <<"F", "i", "l", "e", "s">>

\* what the callers add: a question, and tool results of several types
SessionInputs ==
    {<<PyStr(<<Word_list, Word_Files>>), "user_query">>,
     <<PyDict(<<PyStr(<<Word_files>>), PyStr(<<Word_list>>)>>),
       "tool_result">>,
     <<PyTuple(<<PyStr(<<Word_files>>), PyStr(<<Word_list>>)>>),
       "tool_result">>,
     <<PySet(<<PyStr(<<Word_files>>)>>), "tool_result">>}

SessionQueries == {<<Word_list, Word_files>>, <<Word_Files>>}

InitSpecSession ==
    InitClient /\ stream = NoStream /\ InitPlanner /\ InitAgent /\ InitRest

NextSession ==
    \/ \E input \in SessionInputs :
           AddContext(input[1], input[2])
           /\ UNCHANGED <<clientVars, streamVars, plannerVars, agentVars,
                          memoryVars, policyVars, batchVars>>
    \/ \E current_query \in SessionQueries :
           ScoreBatch(current_query)
           /\ UNCHANGED <<clientVars, streamVars, plannerVars, agentVars,
                          memoryVars, policyVars, batchVars>>
    \/ \E name \in CheckpointNames :
           SaveCheckpoint(name)
           /\ UNCHANGED <<clientVars, streamVars, plannerVars, agentVars,
                          memoryVars, policyVars, batchVars>>
    \/ \E name \in CheckpointNames :
           RestoreCheckpoint(name)
           /\ UNCHANGED <<clientVars, streamVars, plannerVars, agentVars,
                          memoryVars, policyVars, batchVars>>
    \/ EmptyItems /\ UNCHANGED <<clientVars, streamVars, plannerVars,
                                 agentVars, memoryVars, policyVars, batchVars>>
    \/ now < SessionTicks * TickSeconds
       /\ Tick /\ UNCHANGED <<streamVars, plannerVars, agentVars, restVars>>

SpecSession == InitSpecSession /\ [][NextSession]_vars

\* the item list restore_checkpoint has just rebuilt, and the one saved
Restored == restored # ""

(* C19: after save_checkpoint(label) and restore_checkpoint(label) the     *)
(* item list equals the one saved: same ids in the same order, same        *)
(* timestamps, types, contents and relevance scores.                       *)
C19_RoundTrip == Restored => context_items = saved[restored]

\* a value as JSON holds it: tuples are lists, the keys of a dict are str
RECURSIVE AsJson(_)
AsJson(value) ==
    CASE value.py \in {"tuple", "list"} ->
             PyList([i \in 1..Len(value.elems) |-> AsJson(value.elems[i])])
      [] value.py = "dict" ->
             PyDict([i \in 1..Len(value.elems) |->
                        IF i % 2 = 1 THEN PyStr(value.elems[i].text)
                        ELSE AsJson(value.elems[i])])
      [] OTHER -> value

\* a value built of str, int, list and dict with str keys only
RECURSIVE JsonNative(_)
JsonNative(value) ==
    CASE value.py \in {"str", "int"} -> TRUE
      [] value.py = "list" ->
             \A i \in 1..Len(value.elems) : JsonNative(value.elems[i])
      [] value.py = "dict" ->
             \A i \in 1..Len(value.elems) :
                 IF i % 2 = 1 THEN value.elems[i].py = "str"
                 ELSE JsonNative(value.elems[i])
      [] OTHER -> FALSE

(* C19, amended: after save_checkpoint(label) and restore_checkpoint(label)*)
(* the item list has the ids of the one saved in the same order, the same  *)
(* timestamps, types and relevance scores, and each content as JSON holds  *)
(* it: the same content when it is built of str, int, list and dict with   *)
(* str keys, and otherwise the content with its tuples turned into lists   *)
(* and its dict keys into str.                                             *)
C19_RoundTripAsJson ==
    Restored =>
        LET original == saved[restored]
        IN  /\ Len(context_items) = Len(original)
            /\ \A i \in 1..Len(original) :
                   /\ context_items[i].id = original[i].id
                   /\ context_items[i].timestamp = original[i].timestamp
                   /\ context_items[i].type = original[i].type
                   /\ context_items[i].relevance_score =
                          original[i].relevance_score
                   /\ context_items[i].content = AsJson(original[i].content)
                   /\ JsonNative(original[i].content) =>
                          context_items[i] = original[i]

\* two scored items, a question and a tuple, were saved, the list was
\* emptied and the checkpoint restored
C19_Witness ==
    /\ Restored
    /\ Len(context_items) = 2
    /\ context_items[1].content.py = "str"
    /\ saved[restored][2].content.py = "tuple"
    /\ context_items[1].timestamp < context_items[2].timestamp
    /\ context_items[1].relevance_score # context_items[2].relevance_score
    /\ context_items[2].relevance_score > 0

\* s and t hold the same items, each as many times
IsPermutation(s, t) ==
    /\ Len(s) = Len(t)
    /\ \E f \in [1..Len(s) -> 1..Len(s)] :
           /\ \A i, j \in 1..Len(s) : i # j => f[i] # f[j]
           /\ \A i \in 1..Len(s) : s[i] = t[f[i]]

(* C20: score_batch returns a permutation of the items it was given, each  *)
(* with the score just written back to it, in non-increasing order of      *)
(* relevance_score.                                                        *)
C20_ScoredSorted ==
    scored # <<>> =>
        /\ IsPermutation(scored, context_items)
        /\ \A i \in 1..(Len(scored) - 1) :
               scored[i].relevance_score >= scored[i + 1].relevance_score

\* score_batch returned two items in the other order than it was given them
C20_Witness ==
    /\ Len(scored) = 2
    /\ scored[1] = context_items[2] /\ scored[2] = context_items[1]
    /\ scored[1].relevance_score > scored[2].relevance_score

-----------------------------------------------------------------------------
(* SpecRestore: a session over a checkpoint directory that holds a file    *)
(* from an earlier run or another writer: no file, a file cut short, a     *)
(* checkpoint of one item, a checkpoint whose second item has no           *)
(* timestamp, a checkpoint whose item has a key ContextItem does not know. *)

DocList == [js |-> "string", text |-> <<Word_list>>, elems |-> <<>>]

ItemData_1 ==
    [id |-> <<0, "user_query", PyStr(<<Word_list>>)>>, content |-> DocList,
     type |-> "user_query", timestamp |-> 0, relevance_score |-> 0]

ItemData_NoTimestamp ==
    [id |-> <<0, "tool_result", PyStr(<<Word_list>>)>>, content |-> DocList,
     type |-> "tool_result", relevance_score |-> 0]

ItemData_UnknownKey ==
    [id |-> <<0, "tool_result", PyStr(<<Word_list>>)>>, content |-> DocList,
     type |-> "tool_result", timestamp |-> 0, relevance_score |-> 0,
     score |-> 0]

CheckpointFiles ==
    <<NoCheckpoint,
      [exists |-> TRUE, valid |-> FALSE, context_items |-> <<>>],
      [exists |-> TRUE, valid |-> TRUE, context_items |-> <<ItemData_1>>],
      [exists |-> TRUE, valid |-> TRUE,
       context_items |-> <<ItemData_1, ItemData_NoTimestamp>>],
      [exists |-> TRUE, valid |-> TRUE,
       context_items |-> <<ItemData_UnknownKey>>]>>

InitSpecRestore ==
    /\ InitClient /\ stream = NoStream /\ InitPlanner /\ InitAgent
    /\ InitMemory /\ InitPolicy /\ InitBatch
    /\ context_items = <<>>
    /\ \E k \in 1..Len(CheckpointFiles) :
           checkpoint_file = [name \in CheckpointNames |-> CheckpointFiles[k]]
    /\ saved = [name \in CheckpointNames |-> <<>>]
    /\ scored = <<>>
    /\ restored = ""
    /\ context_adds = 0
    /\ restore_call = NoRestore
    /\ fork = NoFork

NextRestore ==
    \/ \E input \in SessionInputs :
           AddContext(input[1], input[2])
           /\ UNCHANGED <<clientVars, streamVars, plannerVars, agentVars,
                          memoryVars, policyVars, batchVars>>
    \/ \E current_query \in SessionQueries :
           ScoreBatch(current_query)
           /\ UNCHANGED <<clientVars, streamVars, plannerVars, agentVars,
                          memoryVars, policyVars, batchVars>>
    \/ \E name \in CheckpointNames :
           RestoreCheckpoint(name)
           /\ UNCHANGED <<clientVars, streamVars, plannerVars, agentVars,
                          memoryVars, policyVars, batchVars>>
    \/ now < SessionTicks * TickSeconds
       /\ Tick /\ UNCHANGED <<streamVars, plannerVars, agentVars, restVars>>

SpecRestore == InitSpecRestore /\ [][NextRestore]_vars

\* the checkpoint file cannot be restored: it is missing, is not JSON, or
\* holds an item ContextItem(**item_data) raises on
BadCheckpoint(file) ==
    \/ ~file.exists
    \/ ~file.valid
    \/ \E i \in 1..Len(file.context_items) :
           \/ \E field \in {"id", "content", "type", "timestamp"} :
                  field \notin DOMAIN file.context_items[i]
           \/ \E key \in DOMAIN file.context_items[i] :
                  key \notin {"id", "content", "type", "timestamp",
                              "relevance_score", "embeddings"}

(* C38: restore_checkpoint is atomic: when the checkpoint file is missing, *)
(* is not valid JSON or holds an item that cannot be rebuilt, the item     *)
(* list is left exactly as it was and the call returns False; on success   *)
(* the whole list is replaced by the items of the file.                    *)
C38_Step ==
    restore_call'.returned # "none" =>
        LET file == checkpoint_file[restore_call'.name]
        IN  IF BadCheckpoint(file)
            THEN /\ restore_call'.returned = "False"
                 /\ context_items' = context_items
            ELSE /\ restore_call'.returned = "True"
                 /\ Len(context_items') = Len(file.context_items)
                 /\ \A i \in 1..Len(file.context_items) :
                        /\ context_items'[i].id = file.context_items[i].id
                        /\ context_items'[i].timestamp =
                               file.context_items[i].timestamp

C38_RestoreAtomic == [][C38_Step]_vars

\* restore_checkpoint has returned False on the checkpoint whose second
\* item has no timestamp, and the two items of the session are still there
C38_Witness ==
    /\ restore_call.returned = "False"
    /\ Len(checkpoint_file[restore_call.name].context_items) = 2
    /\ Len(context_items) = 2
    /\ context_items[1].relevance_score > 0

-----------------------------------------------------------------------------
(* SpecFork: a session and the session fork_session made of it, each being *)
(* added to, scored, pruned, saved and restored in any order, within one   *)
(* tick of the clock.                                                      *)

keep_top_n == 20

NextFork ==
    \/ \E input \in SessionInputs :
           AddContext(input[1], input[2])
           /\ UNCHANGED <<clientVars, streamVars, plannerVars, agentVars,
                          memoryVars, policyVars, batchVars>>
    \/ \E current_query \in SessionQueries :
           ScoreBatch(current_query)
           /\ UNCHANGED <<clientVars, streamVars, plannerVars, agentVars,
                          memoryVars, policyVars, batchVars>>
    \/ \E current_query \in SessionQueries, n \in {1, keep_top_n} :
           PruneByRelevance(current_query, n)
           /\ UNCHANGED <<clientVars, streamVars, plannerVars, agentVars,
                          memoryVars, policyVars, batchVars>>
    \/ \E name \in CheckpointNames :
           SaveCheckpoint(name)
           /\ UNCHANGED <<clientVars, streamVars, plannerVars, agentVars,
                          memoryVars, policyVars, batchVars>>
    \/ \E name \in CheckpointNames :
           RestoreCheckpoint(name)
           /\ UNCHANGED <<clientVars, streamVars, plannerVars, agentVars,
                          memoryVars, policyVars, batchVars>>
    \/ ForkSession
           /\ UNCHANGED <<clientVars, streamVars, plannerVars, agentVars,
                          memoryVars, policyVars, batchVars>>
    \/ \E input \in SessionInputs :
           ForkAddContext(input[1], input[2])
           /\ UNCHANGED <<clientVars, streamVars, plannerVars, agentVars,
                          memoryVars, policyVars, batchVars>>
    \/ \E current_query \in SessionQueries, n \in {1, keep_top_n} :
           ForkPruneByRelevance(current_query, n)
           /\ UNCHANGED <<clientVars, streamVars, plannerVars, agentVars,
                          memoryVars, policyVars, batchVars>>

SpecFork == InitSpecSession /\ [][NextFork]_vars

(* C39: after fork_session the two sessions are independent: an add, a     *)
(* prune, a scoring or a restore on one session changes neither the item   *)
(* list of the other session nor a field of an item the other holds, so no *)
(* operation leaves both lists other than they were.                       *)
C39_Step ==
    fork.forked =>
        \/ context_items' = context_items
        \/ fork'.context_items = fork.context_items

C39_ForkIndependent == [][C39_Step]_vars

-----------------------------------------------------------------------------
(* SpecMemory: the operations of LongTermMemory in any order, the clock    *)
(* moving between them.  search() reads memory and changes nothing.        *)

InitSpecMemory ==
    InitClient /\ stream = NoStream /\ InitPlanner /\ InitAgent /\ InitRest

NextMemory ==
    \/ \E item \in MemoryData, source \in MemorySources :
           Store(item, source)
           /\ UNCHANGED <<clientVars, streamVars, plannerVars, agentVars,
                          policyVars, sessionVars, batchVars>>
    \/ \E limit \in 0..MaxEntries :
           Retrieve(limit)
           /\ UNCHANGED <<clientVars, streamVars, plannerVars, agentVars,
                          policyVars, sessionVars, batchVars>>
    \/ Clear /\ UNCHANGED <<clientVars, streamVars, plannerVars, agentVars,
                          policyVars, sessionVars, batchVars>>
    \/ Tick /\ UNCHANGED <<streamVars, plannerVars, agentVars, restVars>>

SpecMemory == InitSpecMemory /\ [][NextMemory]_vars

IsPrefix(s, t) == Len(s) <= Len(t) /\ SubSeq(t, 1, Len(s)) = s

(* C11: the memory is append-only: at every retrieve the memory still      *)
(* starts with the memory the retrieve before it saw, entry for entry, so  *)
(* what that retrieve returned is still there, unchanged and in order.     *)
C11_Step == retrievals' = retrievals + 1 => IsPrefix(seen, memory)

C11_MemoryAppendOnly == [][C11_Step]_vars

-----------------------------------------------------------------------------
(* SpecBatch: the tool chain (src/c/tool_chain.py).  The LLM names a chain *)
(* of tool nodes, optimize_execution_order groups it into batches, and     *)
(* execute_batch runs the batches one after the other: asyncio.gather      *)
(* starts the call_tool of every node of the batch, each runs up to its    *)
(* first await of the transport, and the transport then answers the calls  *)
(* in flight in any order.  The clock stands still and nobody cancels.     *)

MaxNodes == 4

MAX_PARALLEL_TOOLS == 3

\* execution_rules["parallel_safe"]
parallel_safe ==
    {<<"read_file">>, <<"list_directory">>, <<"search_files">>,
     <<"git_status">>, <<"system_info">>}

\* ToolNode as detect_chain builds it
ToolNode(name, arguments, dependencies) ==
    [name |-> name, arguments |-> arguments, dependencies |-> dependencies,
     can_run_parallel |-> name \in parallel_safe]

ArgsRead == Dict(<< <<"path", <<"r", ".", "t", "x", "t">>>> >>)

\* the nodes the LLM puts into its chains, in the order it lists them
NodePool ==
    <<ToolNode(<<"write_file">>, ArgsReport, {<<"read_file">>}),
      ToolNode(<<"read_file">>, ArgsRead, {}),
      ToolNode(<<"list_directory">>, ArgsList, {}),
      ToolNode(<<"search_files">>, ArgsSearch, {}),
      ToolNode(<<"git_status">>, Dict(<<>>), {})>>

\* the nodes for execute_batch: the LLM may list the same read twice
BatchPool == NodePool \o <<ToolNode(<<"read_file">>, ArgsRead, {})>>

\* the chain of the nodes of pool whose positions are in picked
RECURSIVE ChainFrom(_, _, _)
ChainFrom(pool, picked, i) ==
    IF i > Len(pool) THEN <<>>
    ELSE (IF i \in picked THEN <<pool[i]>> ELSE <<>>)
             \o ChainFrom(pool, picked, i + 1)

NodeNames(nodes) == {nodes[i].name : i \in 1..Len(nodes)}

\* every ready node put into one batch
round_batches_together(ready) == <<ready>>

\* the batches of one pass of the while loop: the parallel-safe nodes that
\* are ready as one batch, then each other ready node as a batch of its own
round_batches(ready) ==
    LET IsParallel(node) == node.can_run_parallel
        IsSequential(node) == ~node.can_run_parallel
        parallel_batch == SelectSeq(ready, IsParallel)
        sequential_batch == SelectSeq(ready, IsSequential)
    IN  (IF parallel_batch # <<>> THEN <<parallel_batch>> ELSE <<>>)
            \o [i \in 1..Len(sequential_batch) |-> <<sequential_batch[i]>>]

\* every remaining node taken as ready
ready_nodes_unchecked(remaining, completed) == remaining

\* ready = [node for node in remaining
\*          if node.dependencies.issubset(completed)]
ready_nodes(remaining, completed) ==
    LET IsReady(node) == node.dependencies \subseteq completed
    IN  SelectSeq(remaining, IsReady)

\* the while loop of optimize_execution_order
RECURSIVE optimize_from(_, _, _)
optimize_from(remaining, completed, done_batches) ==
    LET ready == ready_nodes(remaining, completed)
        NotReady(node) == \A i \in 1..Len(ready) : ready[i] # node
    IN  IF remaining = <<>> \/ ready = <<>>
        THEN done_batches
        ELSE optimize_from(SelectSeq(remaining, NotReady),
                           completed \cup NodeNames(ready),
                           done_batches \o round_batches(ready))

optimize_execution_order(tool_nodes) == optimize_from(tool_nodes, {}, <<>>)

\* the coroutine execute_one(node), created and not yet started
Created(node) ==
    [IdleOp EXCEPT !.kind = "tool", !.name = node.name,
                   !.arguments = node.arguments]

\* call_tool up to its first await of the transport
call_tool_head(created) ==
    LET o == NewOp("tool", "terminal", created.name, created.arguments)
    IN  IF check_cancelled(cancelled) THEN Raised(o, "RuntimeError")
        ELSE IF ~is_tool_allowed("terminal", o.name)
             THEN Raised(o, "PermissionError")
        ELSE IF circuit_is_open(o.key)
             THEN [Raised(o, "ResourceReadError") EXCEPT !.blocked = TRUE]
        ELSE IF Truthy(get_cached(o.key)) THEN Returned(o, get_cached(o.key))
        ELSE Awaiting(o, 0)

\* the tool calls of the batch that await the transport
InFlight ==
    Cardinality({i \in 1..Len(batch_ops) : batch_ops[i].pc = "awaiting"})

\* execute_batch(batch) on the next batch: gather creates the coroutines
ExecuteBatch ==
    /\ batches # <<>>
    /\ batch_ops = <<>>
    /\ batch_ops' = [i \in 1..Len(Head(batches)) |-> Created(Head(batches)[i])]
    /\ batches' = Tail(batches)
    /\ UNCHANGED <<clientVars, chain, batch_results>>

\* what execute_one returns for its node: the result of call_tool, or
\* {"success": False, "error": str(e)} for what call_tool raised
node_result(o) == IF o.status = "returned" THEN o.value ELSE ErrorResult

\* dict(results) on the (name, result) pairs in the order of the batch: a
\* later pair replaces an earlier one of the same name
RECURSIVE dict_of(_, _, _)
dict_of(ops, i, d) ==
    IF i > Len(ops) THEN d
    ELSE dict_of(ops, i + 1, Put(d, ops[i].name, node_result(ops[i])))

\* gather has every result: execute_batch returns dict(results)
BatchReturns ==
    /\ batch_ops # <<>>
    /\ \A i \in 1..Len(batch_ops) : batch_ops[i].pc = "done"
    /\ batch_results' = dict_of(batch_ops, 1, EmptyMap)
    /\ batch_ops' = <<>>
    /\ UNCHANGED <<clientVars, batches, chain>>

\* the event loop starts the next coroutine of the batch
StartNode ==
    /\ \E i \in 1..Len(batch_ops) :
           /\ batch_ops[i].pc = "idle"
           /\ \A j \in 1..(i - 1) : batch_ops[j].pc # "idle"
           /\ batch_ops' = [batch_ops EXCEPT ![i] = call_tool_head(batch_ops[i])]
    /\ calls' = calls + 1
    /\ UNCHANGED <<cancelled, cache, failure_count, circuit_open_until,
                   context_buffer, now, op, opened_at, fresh_failures, prev,
                   added, batches, chain,
                   batch_results>>

\* the transport answers the call of node i (client.py 298-315); what
\* call_tool raises, execute_one turns into a failed result
BatchRespond(i, out) ==
    /\ i \in 1..Len(batch_ops)
    /\ batch_ops[i].pc = "awaiting"
    /\ \A j \in 1..Len(batch_ops) : batch_ops[j].pc # "idle"
    /\ LET o == batch_ops[i]
       IN  IF out.type = "ok"
           THEN /\ record_success(o.key)
                /\ cache' = set_cache(o.key, out.raw)
                /\ context_buffer' =
                       add_to_context(context_buffer,
                                      ContextItem("tool", o.name, out.raw))
                /\ added' = added + 1
                /\ batch_ops' = [batch_ops EXCEPT
                                    ![i] = Returned(Attempted(o, "none"), out.raw)]
           ELSE /\ record_failure(o.key)
                /\ batch_ops' =
                       [batch_ops EXCEPT
                           ![i] = IF o.attempt = MAX_RETRIES
                                  THEN Raised(Attempted(o, out.type),
                                              "ToolExecutionError")
                                  ELSE Awaiting(Attempted(o, out.type),
                                                o.attempt + 1)]
                /\ UNCHANGED <<cache, context_buffer, added>>
    /\ UNCHANGED <<cancelled, now, op, prev, calls, batches, chain,
                   batch_results>>

BatchTransportOutcomes ==
    {[type |-> "ok", raw |-> RawOk], [type |-> "Exception", raw |-> NoRaw]}

InitSpecBatch ==
    /\ InitClient /\ stream = NoStream /\ InitPlanner /\ InitAgent
    /\ InitMemory /\ InitPolicy /\ InitSession
    /\ batch_ops = <<>> /\ chain = NoChain /\ batch_results = EmptyMap
    /\ \E picked \in SUBSET (1..Len(BatchPool)) :
           /\ Cardinality(picked) \in 1..MaxNodes
           /\ batches = optimize_execution_order(ChainFrom(BatchPool, picked, 1))

NextBatch ==
    \/ ExecuteBatch
           /\ UNCHANGED <<streamVars, plannerVars, agentVars, memoryVars,
                          policyVars, sessionVars>>
    \/ StartNode
           /\ UNCHANGED <<streamVars, plannerVars, agentVars, memoryVars,
                          policyVars, sessionVars>>
    \/ BatchReturns
           /\ UNCHANGED <<streamVars, plannerVars, agentVars, memoryVars,
                          policyVars, sessionVars>>
    \/ \E i \in 1..MaxNodes, out \in BatchTransportOutcomes :
           BatchRespond(i, out)
           /\ UNCHANGED <<streamVars, plannerVars, agentVars, memoryVars,
                          policyVars, sessionVars>>

SpecBatch == InitSpecBatch /\ [][NextBatch]_vars

(* C21: while a parallel batch is dispatched, at no point are more than    *)
(* MAX_PARALLEL_TOOLS tool calls in flight at the same time, whatever the  *)
(* size of the batch.                                                      *)
C21_ParallelismBounded == InFlight <= MAX_PARALLEL_TOOLS

(* C36: execute_batch returns only when the call of every node of the      *)
(* batch has ended, and the result it returns holds one outcome per node   *)
(* of the batch, the outcome of that node: the failure of a node is        *)
(* recorded and neither cancels nor hides the outcome of a sibling.        *)
C36_Step ==
    (batch_ops # <<>> /\ batch_ops' = <<>>) =>
        /\ \A i \in 1..Len(batch_ops) : batch_ops[i].pc = "done"
        /\ Cardinality(DOMAIN batch_results') = Len(batch_ops)
        /\ \A i \in 1..Len(batch_ops) :
               /\ batch_ops[i].name \in DOMAIN batch_results'
               /\ batch_results'[batch_ops[i].name] = node_result(batch_ops[i])

C36_OneOutcomePerNode == [][C36_Step]_vars

(* C40: whenever the cache holds a response for a key, the circuit of the  *)
(* key is closed: its failure counter is 0 and it has no open-until time,  *)
(* whatever the interleaving of the calls of a batch on that key.          *)
C40_CachedKeyCircuitClosed ==
    \A key \in DOMAIN cache :
        /\ GetOr(failure_count, key, 0) = 0
        /\ key \notin DOMAIN circuit_open_until

-----------------------------------------------------------------------------
(* SpecChain: detect_chain returns the tool nodes the LLM listed, and       *)
(* optimize_execution_order groups them into batches (agent.py 233-238).   *)
(* The LLM may name a tool twice, with different arguments or              *)
(* dependencies, and may name dependencies that nothing satisfies.         *)

\* the nodes the LLM puts into its chains, in the order it lists them
ChainPool ==
    NodePool \o
    <<ToolNode(<<"read_file">>, ArgsReport, {<<"list_directory">>}),
      ToolNode(<<"system_info">>, Dict(<<>>), {<<"read_file">>}),
      ToolNode(<<"replace_in_file">>, ArgsReport, {<<"git_commit">>}),
      ToolNode(<<"git_commit">>, Dict(<<>>), {<<"replace_in_file">>}),
      ToolNode(<<"run_command">>, ArgsWipe, {})>>

\* batches = self.tool_chain.optimize_execution_order(tool_nodes)
OptimizeOrder ==
    /\ ~chain.ordered
    /\ batches' = optimize_execution_order(chain.tool_nodes)
    /\ chain' = [chain EXCEPT !.ordered = TRUE]
    /\ UNCHANGED <<clientVars, batch_ops, batch_results>>

InitSpecChain ==
    /\ InitClient /\ stream = NoStream /\ InitPlanner /\ InitAgent
    /\ InitMemory /\ InitPolicy /\ InitSession
    /\ batches = <<>> /\ batch_ops = <<>> /\ batch_results = EmptyMap
    /\ \E picked \in SUBSET (1..Len(ChainPool)) :
           /\ Cardinality(picked) \in 1..MaxNodes
           /\ chain = [tool_nodes |-> ChainFrom(ChainPool, picked, 1),
                     ordered |-> FALSE]

NextChain ==
    OptimizeOrder
        /\ UNCHANGED <<streamVars, plannerVars, agentVars, memoryVars,
                       policyVars, sessionVars>>

SpecChain == InitSpecChain /\ [][NextChain]_vars

\* the nodes of a list
NodesOf(nodes) == {nodes[i] : i \in 1..Len(nodes)}

\* the nodes whose dependencies can be satisfied, given that those of
\* the nodes of resolved can
RECURSIVE Resolvable(_, _)
Resolvable(nodes, resolved) ==
    LET more == {n \in NodesOf(nodes) :
                    \A d \in n.dependencies :
                        \E m \in resolved : m.name = d}
    IN  IF more = resolved THEN resolved ELSE Resolvable(nodes, more)

Satisfiable(nodes) == Resolvable(nodes, {}) = NodesOf(nodes)

\* the batches of a list of batches that hold node
BatchesOf(node, bs) ==
    {k \in 1..Len(bs) : \E i \in 1..Len(bs[k]) : bs[k][i] = node}

\* how often node occurs in a list of batches
Placed(node, bs) ==
    Cardinality({p \in (1..Len(bs)) \X (1..MaxNodes + 1) :
                    p[2] <= Len(bs[p[1]]) /\ bs[p[1]][p[2]] = node})

(* C33: for a node list whose dependencies are all satisfiable,            *)
(* optimize_execution_order puts every node in exactly one batch, and      *)
(* every node that carries one of the dependency names of a node is in a   *)
(* strictly earlier batch than that node.                                  *)
C33_BatchesRespectDependencies ==
    (chain.ordered /\ Satisfiable(chain.tool_nodes)) =>
        \A n \in NodesOf(chain.tool_nodes) :
            /\ Placed(n, batches) = 1
            /\ \A m \in NodesOf(chain.tool_nodes) :
                   m.name \in n.dependencies =>
                       \A kn \in BatchesOf(n, batches) :
                           \A km \in BatchesOf(m, batches) : km < kn

(* C34: every batch of more than one node holds only parallel-safe nodes,  *)
(* and every node outside the parallel-safe set is a batch of its own.     *)
C34_MutatingToolsAlone ==
    chain.ordered =>
        \A k \in 1..Len(batches) :
            \A i \in 1..Len(batches[k]) :
                batches[k][i].name \notin parallel_safe =>
                    Len(batches[k]) = 1

\* a node outside the parallel-safe set became ready in the same pass as
\* other nodes, and stands in a batch of its own
C34_Witness ==
    /\ chain.ordered
    /\ \E k \in 1..Len(batches) :
           /\ Len(batches[k]) > 1
           /\ k < Len(batches)
           /\ batches[k + 1][1].name \notin parallel_safe
           /\ batches[k + 1][1].dependencies \subseteq
                  UNION {NodeNames(batches[j]) : j \in 1..(k - 1)}

(* C35: optimize_execution_order returns on every node list; no batch it   *)
(* returns holds a node with a dependency that no earlier batch satisfies, *)
(* and the nodes whose dependencies are cyclic or cannot be satisfied are  *)
(* in no batch.                                                            *)
C35_AbortsOnUnsatisfiable ==
    chain.ordered =>
        /\ \A k \in 1..Len(batches) :
               \A i \in 1..Len(batches[k]) :
                   batches[k][i].dependencies \subseteq
                       UNION {NodeNames(batches[j]) : j \in 1..(k - 1)}
        /\ \A n \in NodesOf(chain.tool_nodes) \ Resolvable(chain.tool_nodes, {}) :
               BatchesOf(n, batches) = {}

\* a list with a dependency cycle has been ordered: the nodes before the
\* cycle are batched and the two nodes of the cycle are left out
C35_Witness ==
    /\ chain.ordered
    /\ batches # <<>>
    /\ \E n, m \in NodesOf(chain.tool_nodes) :
           /\ n # m
           /\ n.name \in m.dependencies /\ m.name \in n.dependencies
           /\ BatchesOf(n, batches) = {} /\ BatchesOf(m, batches) = {}

====
